---------------------------- MODULE Spec2Model ----------------------------
(***************************************************************************)
(* A model of the reactive engine of src/signal/alien-signals/system.ts:   *)
(* the graph engine (link, propagate, checkDirty, the tracking session,    *)
(* the effect queue) and the primitives built on it (signal, computed,     *)
(* effect, batches, the stop handle).                                      *)
(*                                                                         *)
(* The heap is an arena: nodes 1..MaxNode and links 1..MaxLink, a pointer  *)
(* is an index and NoLink / NoNode is `undefined`.  Every public call is   *)
(* one action; the call is computed by operators that take the machine     *)
(* (a record of all the program's state) and return the machine after the  *)
(* call, written as the source's functions are.  User code (the derivation *)
(* of a computed, the body of an effect) is an expression of a small       *)
(* language, interpreted by Eval; each behaviour runs one program of       *)
(* Programs.                                                               *)
(***************************************************************************)
EXTENDS Integers, Sequences, FiniteSets

(***************************************************************************)
(* Bounds of the model.                                                    *)
(***************************************************************************)
MaxVal == 2
MaxBatchDepth == 2
MaxLink == 7

MaxNode == 5
MaxUnpaired == 1
MaxPause == 1
MaxStack == 4
\* sibling moves along one subscriber list after which the walk is on a
\* list that closes on itself: a list has at most MaxLink links, and three
\* rounds of it leave no flag to set
MaxHops == 3 * MaxLink
NoLink == 0
NoNode == 0
Undefined == -1

NodeIds == 1..MaxNode
LinkIds == 1..MaxLink
Values == 0..MaxVal

VARIABLES
    prog,               \* the program run by this behaviour (constant)
    nodes,              \* the objects: signals, computeds, effects
    links,              \* the Link objects
    queuedEffects,      \* head of the pending-effects queue
    queuedEffectsTail,  \* tail of the pending-effects queue
    batchDepth,
    activeSub,
    activeScope,
    pauseStack,
    stopped,            \* history: the effects whose stop handle was called
    handles,            \* the stop handles that effect() returned
    unpaired,           \* history: the endBatch calls that had no startBatch
    lastCall,           \* history: the public call that led to this state
    trace,              \* history: what that call did, in order
    intervals,          \* history: derivations since the last changing write
    pruned,             \* history: what each subscriber's last session dropped
    batchLog,           \* history: the signals changed in the current batch
    established         \* history: the live links, in the order of creation

vars == <<prog, nodes, links, queuedEffects, queuedEffectsTail, batchDepth,
          activeSub, activeScope, pauseStack, stopped, handles, unpaired,
          lastCall, trace,
          intervals, pruned, batchLog, established>>

(***************************************************************************)
(* SubscriberFlags, as a set of flag names.                                *)
(***************************************************************************)
Computed == "Computed"
Effect == "Effect"
Tracking == "Tracking"
Notified == "Notified"
Recursed == "Recursed"
Dirty == "Dirty"
PendingComputed == "PendingComputed"
PendingEffect == "PendingEffect"
Propagated == {Dirty, PendingComputed, PendingEffect}

(***************************************************************************)
(* Objects.  A node that was not created yet has kind "none".              *)
(***************************************************************************)
BlankLink == [dep |-> NoNode, sub |-> NoNode, prevSub |-> NoLink,
              nextSub |-> NoLink, nextDep |-> NoLink]

NewNode(kind, flags, value) ==
    [kind |-> kind, flags |-> flags, deps |-> NoLink, depsTail |-> NoLink,
     subs |-> NoLink, subsTail |-> NoLink, currentValue |-> value]

\* 'flags' in dep, 'deps' in dep: the object is a Subscriber
HasFlags(m, n) == m.nodes[n].kind \in {"computed", "effect", "scope"}

SetFlags(m, n, f) == [m EXCEPT !.nodes[n].flags = f]
SetDeps(m, n, l) == [m EXCEPT !.nodes[n].deps = l]
SetDepsTail(m, n, l) == [m EXCEPT !.nodes[n].depsTail = l]
SetSubs(m, n, l) == [m EXCEPT !.nodes[n].subs = l]
SetSubsTail(m, n, l) == [m EXCEPT !.nodes[n].subsTail = l]
SetPrevSub(m, l, v) == [m EXCEPT !.links[l].prevSub = v]
SetNextSub(m, l, v) == [m EXCEPT !.links[l].nextSub = v]
SetNextDep(m, l, v) == [m EXCEPT !.links[l].nextDep = v]

Log(m, e) == [m EXCEPT !.trace = Append(@, e)]
Throw(m, what) == [m EXCEPT !.exc = what]
Thrown(m) == m.exc # "none"
\* the sibling moves of the walk of one subscriber list
Hop(m) == [m EXCEPT !.hops = @ + 1]
Rest(m) == [m EXCEPT !.hops = 0]

\* a result of a call that returns a value
Ret(m, v) == [m |-> m, v |-> v]


(***************************************************************************)
(* Let(v, LAMBDA x : e) is e with x bound to the value of v: the `const`   *)
(* declarations of the source.                                             *)
(***************************************************************************)
Let(v, G(_)) == G(v)

(***************************************************************************)
(* The graph engine: createReactiveSystem.                                 *)
(***************************************************************************)
\* The engine and the user's functions call each other without bound:
\* the calls that reach user code go through Invoke(m, f, args), which
\* applies the function named f (defined after them all).
RECURSIVE Invoke(_, _, _)

RECURSIVE isValidLinkLoop(_, _, _, _)
isValidLinkLoop(m, lnk, checkLink, depsTail) ==
    IF lnk = checkLink THEN TRUE
    ELSE IF lnk = depsTail THEN FALSE
    ELSE IF m.links[lnk].nextDep # NoLink
    THEN isValidLinkLoop(m, m.links[lnk].nextDep, checkLink, depsTail)
    ELSE FALSE

isValidLink(m, checkLink, sub) ==
    IF m.nodes[sub].depsTail # NoLink
    THEN isValidLinkLoop(m, m.nodes[sub].deps, checkLink, m.nodes[sub].depsTail)
    ELSE FALSE

\* `{dep, sub, nextDep, ...}`: a new object is a slot of the arena that no
\* pointer refers to (Collect frees the unreachable ones after each call)
FreeLinks(m) == {l \in LinkIds : m.links[l].dep = NoNode}

linkNewDep(m, dep, sub, nextDep, depsTail) ==
    IF FreeLinks(m) = {} THEN [m EXCEPT !.oom = TRUE]
    ELSE
    Let(CHOOSE l \in FreeLinks(m) : \A k \in FreeLinks(m) : l <= k,
        LAMBDA newLink :
    Let([m EXCEPT !.links[newLink] =
            [dep |-> dep, sub |-> sub, nextDep |-> nextDep,
             prevSub |-> NoLink, nextSub |-> NoLink]],
        LAMBDA m0 :
    Let(IF depsTail = NoLink
        THEN SetDeps(m0, sub, newLink)
        ELSE SetNextDep(m0, depsTail, newLink),
        LAMBDA m1 :
    Let(IF m1.nodes[dep].subs = NoLink
        THEN SetSubs(m1, dep, newLink)
        ELSE SetNextSub(SetPrevSub(m1, newLink, m1.nodes[dep].subsTail),
                        m1.nodes[dep].subsTail, newLink),
        LAMBDA m2 :
    SetSubsTail(SetDepsTail(m2, sub, newLink), dep, newLink)))))

link(m, dep, sub) ==
    LET currentDep == m.nodes[sub].depsTail
        nextDep == IF currentDep # NoLink
                   THEN m.links[currentDep].nextDep
                   ELSE m.nodes[sub].deps
        depLastSub == m.nodes[dep].subsTail
    IN  IF currentDep # NoLink /\ m.links[currentDep].dep = dep THEN m
        ELSE IF nextDep # NoLink /\ m.links[nextDep].dep = dep
        THEN SetDepsTail(m, sub, nextDep)
        ELSE IF /\ depLastSub # NoLink
                /\ m.links[depLastSub].sub = sub
                /\ isValidLink(m, depLastSub, sub)
        THEN m
        ELSE linkNewDep(m, dep, sub, nextDep, currentDep)

\* an append that puts the effect at the head of the queue
enqueueFront(m, sub) ==
    LET head == m.queuedEffects
    IN  IF head # NoNode
        THEN IF m.nodes[sub].depsTail = NoLink
             THEN Throw(m, "TypeError")
             ELSE Log([SetNextDep(m, m.nodes[sub].depsTail, m.nodes[head].deps)
                          EXCEPT !.queuedEffects = sub],
                      [ev |-> "enqueue", node |-> sub])
        ELSE Log([m EXCEPT !.queuedEffects = sub, !.queuedEffectsTail = sub],
                 [ev |-> "enqueue", node |-> sub])

\* the two places of propagate and the one of shallowPropagate that append
\* an effect to the queue; `queuedEffectsTail.depsTail!.nextDep` throws a
\* TypeError when the tail's depsTail is undefined
enqueue(m, sub) ==
    LET tail == m.queuedEffectsTail
    IN  IF tail # NoNode
        THEN IF m.nodes[tail].depsTail = NoLink
             THEN Throw(m, "TypeError")
             ELSE Log([SetNextDep(m, m.nodes[tail].depsTail, m.nodes[sub].deps)
                          EXCEPT !.queuedEffectsTail = sub],
                      [ev |-> "enqueue", node |-> sub])
        ELSE Log([m EXCEPT !.queuedEffects = sub, !.queuedEffectsTail = sub],
                 [ev |-> "enqueue", node |-> sub])

RECURSIVE propagateLoop(_, _, _, _, _)
RECURSIVE propagateUnwind(_, _, _)

\* lines 240-261: `while (stack)`, back to the level the walk came from
propagateUnwind(m, subs, stack) ==
    IF stack = 0 THEN Rest(m)
    ELSE
    LET depSubs == m.nodes[m.links[subs].dep].subs
        subs1 == m.links[depSubs].prevSub
        next == m.links[subs1].nextSub
    IN  IF next # NoLink
        THEN propagateLoop(Rest(SetPrevSub(m, depSubs, NoLink)), next, next,
                 stack - 1, IF stack - 1 > 0 THEN PendingComputed ELSE Dirty)
        ELSE propagateUnwind(SetPrevSub(m, depSubs, NoLink), subs1, stack - 1)

\* propagate that goes on to the next sibling with PendingComputed
propagateNextPending(m, subs, stack) ==
    IF Thrown(m) THEN m
    ELSE IF m.links[subs].nextSub # NoLink
    THEN propagateLoop(m, m.links[subs].nextSub, m.links[subs].nextSub, stack,
                       PendingComputed)
    ELSE propagateUnwind(m, subs, stack)

\* lines 227-237: the next sibling
propagateNext(m, subs, stack) ==
    IF Thrown(m) THEN m
    ELSE IF m.links[subs].nextSub # NoLink
    THEN IF m.hops >= MaxHops
         THEN Throw(m, "diverged")
         ELSE propagateLoop(Hop(m), m.links[subs].nextSub,
                  m.links[subs].nextSub, stack,
                  IF stack > 0 THEN PendingComputed ELSE Dirty)
    ELSE propagateUnwind(m, subs, stack)

\* lines 171-205: the subscriber was marked, go down to its subscribers
propagateInto(m, sub, subFlags, subs, stack) ==
    LET subSubs == m.nodes[sub].subs
    IN  IF subSubs # NoLink
        THEN IF m.links[subSubs].nextSub # NoLink
             THEN propagateLoop(Rest(SetPrevSub(m, subSubs, subs)),
                      subSubs, subSubs, stack + 1, PendingComputed)
             ELSE propagateLoop(Rest(m), subSubs, subs, stack,
                      IF Effect \in subFlags THEN PendingEffect
                      ELSE PendingComputed)
        ELSE IF Effect \in subFlags
        THEN propagateNext(enqueue(m, sub), subs, stack)
        ELSE propagateNext(m, subs, stack)

\* lines 206-225: the two `else if` of the loop; m0 is the machine after
\* the condition of the `if` (its third alternative assigns the flags
\* before it tests `subs !== undefined`)
propagateElse(m0, lnk, sub, subFlags, subs, stack, targetFlag) ==
    IF subFlags \cap {Tracking, targetFlag} = {}
    THEN IF subFlags \cap {Effect, Notified} = {Effect}
         THEN propagateNext(
                  enqueue(SetFlags(m0, sub,
                              subFlags \cup {targetFlag, Notified}), sub),
                  subs, stack)
         ELSE propagateNext(
                  SetFlags(m0, sub, subFlags \cup {targetFlag, Notified}),
                  subs, stack)
    ELSE IF /\ targetFlag \notin subFlags
            /\ subFlags \cap Propagated # {}
            /\ isValidLink(m0, lnk, sub)
    THEN propagateNext(SetFlags(m0, sub, subFlags \cup {targetFlag}),
                       subs, stack)
    ELSE propagateNext(m0, subs, stack)

\* propagate that marks a subscriber again when a second path reaches it
propagateLoopEveryPath(m, lnk, subs, stack, targetFlag) ==
    propagateInto(
        SetFlags(m, m.links[lnk].sub,
                 m.nodes[m.links[lnk].sub].flags \cup {targetFlag, Notified}),
        m.links[lnk].sub, m.nodes[m.links[lnk].sub].flags, subs, stack)

propagateLoop(m, lnk, subs, stack, targetFlag) ==
    LET sub == m.links[lnk].sub
        subFlags == m.nodes[sub].flags
        c1 == subFlags \cap ({Tracking, Recursed} \cup Propagated) = {}
        c2 == Recursed \in subFlags /\ Tracking \notin subFlags
    IN  IF c1
        THEN propagateInto(
                 Log(SetFlags(m, sub, subFlags \cup {targetFlag, Notified}),
                     [ev |-> "mark", node |-> sub, dep |-> m.links[lnk].dep,
                      flag |-> targetFlag, last |-> m.nodes[sub].subs = NoLink]),
                 sub, subFlags, subs, stack)
        ELSE IF c2
        THEN propagateInto(
                 SetFlags(m, sub,
                     (subFlags \ {Recursed}) \cup {targetFlag, Notified}),
                 sub, subFlags, subs, stack)
        ELSE IF subFlags \cap Propagated = {} /\ isValidLink(m, lnk, sub)
        THEN IF m.nodes[sub].subs # NoLink
             THEN propagateInto(
                      SetFlags(m, sub,
                          subFlags \cup {Recursed, targetFlag, Notified}),
                      sub, subFlags, subs, stack)
             ELSE propagateElse(
                      SetFlags(m, sub,
                          subFlags \cup {Recursed, targetFlag, Notified}),
                      lnk, sub, subFlags, subs, stack, targetFlag)
        ELSE propagateElse(m, lnk, sub, subFlags, subs, stack, targetFlag)

\* the pending-effects queue, from its head: the effects are chained
\* through the nextDep of their last dependency link
RECURSIVE QueueFrom(_, _, _)
QueueFrom(m, e, k) ==
    IF e = NoNode \/ k = 0 THEN <<>>
    ELSE IF m.nodes[e].depsTail = NoLink
            \/ m.links[m.nodes[e].depsTail].nextDep = NoLink
    THEN <<e>>
    ELSE <<e>> \o QueueFrom(m,
                      m.links[m.links[m.nodes[e].depsTail].nextDep].sub, k - 1)

QueueOf(m) == QueueFrom(m, m.queuedEffects, MaxNode)

\* the return of propagate, for the history
propagateReturn(m, lnk) ==
    IF Thrown(m) THEN m
    ELSE Log(m, [ev |-> "propagated", node |-> m.links[lnk].dep,
                 queue |-> QueueOf(m)])

\* propagate that runs the effects it reaches before it returns
propagateInline(m, lnk) ==
    propagateReturn(
        Invoke(propagateLoop(
                   Log(m, [ev |-> "propagate", node |-> m.links[lnk].dep]),
                   lnk, lnk, 0, Dirty),
               "processEffectNotifications", <<>>).m, lnk)

propagate(m, lnk) ==
    propagateReturn(
        propagateLoop(Log(m, [ev |-> "propagate", node |-> m.links[lnk].dep]),
                      lnk, lnk, 0, Dirty), lnk)

RECURSIVE shallowPropagate(_, _)
shallowPropagateNext(m, lnk) ==
    IF Thrown(m) THEN m
    ELSE IF m.links[lnk].nextSub # NoLink
    THEN IF m.hops >= MaxHops
         THEN Throw(m, "diverged")
         ELSE shallowPropagate(Hop(m), m.links[lnk].nextSub)
    ELSE Rest(m)

shallowPropagate(m, lnk) ==
    LET sub == m.links[lnk].sub
        subFlags == m.nodes[sub].flags
    IN  IF subFlags \cap {PendingComputed, Dirty} = {PendingComputed}
        THEN IF subFlags \cap {Effect, Notified} = {Effect}
             THEN shallowPropagateNext(
                      enqueue(SetFlags(m, sub, subFlags \cup {Dirty, Notified}),
                              sub), lnk)
             ELSE shallowPropagateNext(
                      SetFlags(m, sub, subFlags \cup {Dirty, Notified}), lnk)
        ELSE shallowPropagateNext(m, lnk)

startTracking(m, sub) ==
    SetFlags(SetDepsTail(m, sub, NoLink), sub,
             (m.nodes[sub].flags \ ({Notified, Recursed} \cup Propagated))
                 \cup {Tracking})

RECURSIVE clearTracking(_, _)
\* clearTracking that leaves a dependency without subscribers as it is
clearTrackingDepKeep(m, dep, nextDep) ==
    IF nextDep # NoLink THEN clearTracking(m, nextDep) ELSE m

\* lines 704-726, with the link already taken out of dep's subscriber list
clearTrackingDep(m, dep, nextDep) ==
    IF m.nodes[dep].subs = NoLink /\ HasFlags(m, dep)
    THEN IF m.nodes[dep].deps # NoLink
         THEN IF m.nodes[dep].depsTail = NoLink
              THEN Throw(SetFlags(m, dep, m.nodes[dep].flags \cup {Dirty}),
                         "TypeError")
              ELSE clearTracking(
                       SetDepsTail(SetDeps(
                           SetNextDep(
                               SetFlags(m, dep, m.nodes[dep].flags \cup {Dirty}),
                               m.nodes[dep].depsTail, nextDep),
                           dep, NoLink), dep, NoLink),
                       m.nodes[dep].deps)
         ELSE IF nextDep # NoLink
         THEN clearTracking(
                  SetFlags(m, dep, m.nodes[dep].flags \cup {Dirty}), nextDep)
         ELSE SetFlags(m, dep, m.nodes[dep].flags \cup {Dirty})
    ELSE IF nextDep # NoLink THEN clearTracking(m, nextDep)
    ELSE m

clearTrackingPrev(m, dep, prevSub, nextSub, nextDep) ==
    IF prevSub # NoLink
    THEN clearTrackingDep(SetNextSub(m, prevSub, nextSub), dep, nextDep)
    ELSE clearTrackingDep(SetSubs(m, dep, nextSub), dep, nextDep)

clearTracking(m, lnk) ==
    LET dep == m.links[lnk].dep
        nextDep == m.links[lnk].nextDep
        nextSub == m.links[lnk].nextSub
        prevSub == m.links[lnk].prevSub
    IN  IF nextSub # NoLink
        THEN clearTrackingPrev(SetPrevSub(m, nextSub, prevSub),
                               dep, prevSub, nextSub, nextDep)
        ELSE clearTrackingPrev(SetSubsTail(m, dep, prevSub),
                               dep, prevSub, nextSub, nextDep)

\* endTracking that leaves the Tracking flag set
endTrackingFlagsKeep(m, mc, sub) == mc

\* `sub.flags &= ~SubscriberFlags.Tracking`, unless clearTracking threw
endTrackingFlags(m, mc, sub) ==
    IF mc.exc # m.exc THEN mc
    ELSE SetFlags(mc, sub, mc.nodes[sub].flags \ {Tracking})

\* endTracking that leaves the links beyond the cursor in place
endTrackingKeep(m, sub) == endTrackingFlags(m, m, sub)

endTracking(m, sub) ==
    LET depsTail == m.nodes[sub].depsTail
    IN  IF depsTail # NoLink
        THEN IF m.links[depsTail].nextDep # NoLink
             THEN Let(clearTracking(m, m.links[depsTail].nextDep), LAMBDA mc :
                      endTrackingFlags(m,
                          IF mc.exc # m.exc THEN mc
                          ELSE SetNextDep(mc, depsTail, NoLink), sub))
             ELSE endTrackingFlags(m, m, sub)
        ELSE IF m.nodes[sub].deps # NoLink
        THEN Let(clearTracking(m, m.nodes[sub].deps), LAMBDA mc :
                 endTrackingFlags(m,
                     IF mc.exc # m.exc THEN mc ELSE SetDeps(mc, sub, NoLink),
                     sub))
        ELSE endTrackingFlags(m, m, sub)

(***************************************************************************)
(* User code.  An expression reads signals and computeds, computes, and    *)
(* (in an effect) writes signals.  Programs are defined further down.      *)
(***************************************************************************)
Const(v) == [op |-> "const", v |-> v]
Read(n) == [op |-> "read", n |-> n]
Bin(f, a, b) == [op |-> "bin", f |-> f, a |-> a, b |-> b]
If(c, a, b) == [op |-> "if", c |-> c, a |-> a, b |-> b]
Both(a, b) == [op |-> "seq", a |-> a, b |-> b]
Write(n, a) == [op |-> "write", n |-> n, a |-> a]
Raise == [op |-> "throw"]
Pause == [op |-> "pause"]
\* effect(fn) called in a user function: the object is nodes[n]
NewEffect(n) == [op |-> "effect", n |-> n]
Resume == [op |-> "resume"]

\* a(); b(); ...
RECURSIVE Block(_)
Block(s) == IF Len(s) = 1 THEN s[1] ELSE Both(s[1], Block(Tail(s)))

Apply(f, x, y) ==
    CASE f = "add" -> x + y
      [] f = "mul" -> x * y
      [] f = "ge" -> IF x >= y THEN 1 ELSE 0
      [] f = "eq" -> IF x = y THEN 1 ELSE 0

Diamond == "diamond"
Chain == "chain"
Batch == "batch"
Cond == "cond"
DiamondComputed == "dcomp"
Relay == "relay"
Fanout == "fanout"
Faulty == "faulty"
Paused == "paused"
Lazy == "lazy"
Reread == "reread"
Unpaired == "unpaired"
Programs ==
    {Diamond, Chain, Batch, Cond, DiamondComputed, Relay, Fanout, Faulty,
     Paused, Lazy, Reread}
\* the programs that are run with the unpaired calls
MisusePrograms == {Chain, Unpaired}
Cycle == "cycle"
Reentrant == "reentrant"
\* the programs with a computed that depends on itself
CyclePrograms == {Cycle, Reentrant}
Nested == "nested"
Scoped == "scoped"
ScopeReads == "scopereads"
Grouped == "grouped"
Optional == "optional"
Redeclared == "redeclared"
Thrower == "thrower"
Deep == "deep"
\* the programs with a derivation that throws below a computed that has two
\* subscribers
DeepPrograms == {Deep}
\* the programs whose effects are created in an effect or in a scope
ScopedPrograms ==
    {Nested, Scoped, ScopeReads, Grouped, Optional, Redeclared, Thrower}

\* what `signal(v)`, `computed(fn)`, `effect(fn)` and `effectScope(fn)` each
\* program calls ("inner": an effect(fn) that a user function calls)
Kind(p, n) ==
    IF n > 4
    THEN (IF p = Optional /\ n = 5 THEN "inner"
          ELSE IF p = Deep /\ n = 5 THEN "effect"
          ELSE "none")
    ELSE
    CASE p = Diamond -> <<"signal", "computed", "computed", "effect">>[n]
      [] p = Chain -> <<"signal", "computed", "effect", "none">>[n]
      [] p = Batch -> <<"signal", "signal", "effect", "none">>[n]
      [] p = Cond -> <<"signal", "signal", "computed", "effect">>[n]
      [] p = DiamondComputed ->
             <<"signal", "computed", "computed", "computed">>[n]
      [] p = Relay -> <<"signal", "signal", "effect", "effect">>[n]
      [] p = Fanout -> <<"signal", "computed", "effect", "effect">>[n]
      [] p = Faulty -> <<"signal", "computed", "effect", "effect">>[n]
      [] p = Paused -> <<"signal", "signal", "computed", "effect">>[n]
      [] p = Lazy -> <<"signal", "computed", "computed", "none">>[n]
      [] p = Reread -> <<"signal", "computed", "effect", "none">>[n]
      [] p = Unpaired -> <<"signal", "signal", "effect", "none">>[n]
      [] p = Cycle -> <<"signal", "computed", "computed", "computed">>[n]
      [] p = Reentrant -> <<"signal", "computed", "effect", "computed">>[n]
      [] p = Nested -> <<"signal", "computed", "effect", "inner">>[n]
      [] p = Scoped -> <<"signal", "scope", "inner", "inner">>[n]
      [] p = ScopeReads -> <<"signal", "computed", "scope", "none">>[n]
      [] p = Grouped -> <<"signal", "scope", "inner", "effect">>[n]
      [] p = Optional -> <<"signal", "signal", "effect", "inner">>[n]
      [] p = Redeclared -> <<"signal", "effect", "inner", "inner">>[n]
      [] p = Thrower -> <<"signal", "computed", "scope", "inner">>[n]
      [] p = Deep -> <<"signal", "computed", "computed", "effect">>[n]

\* the objects that the calls of `effect(fn)` at one place of a user function
\* can be: the effect of the outer effect's body is object 3 or object 4
\* in Redeclared, object 4 or object 5 in Optional
Slots(p, n) ==
    IF p = Redeclared /\ n = 3 THEN {3, 4}
    ELSE IF p = Optional /\ n = 4 THEN {4, 5}
    ELSE {n}

\* the function passed to computed() or effect()
Body(p, n) ==
    IF n > 4
    THEN (IF p = Optional /\ n = 5 THEN Read(2)
          ELSE IF p = Deep /\ n = 5 THEN Read(3)
          ELSE Const(0))
    ELSE
    CASE p = Diamond ->
             <<Const(0),
               Bin("ge", Read(1), Const(1)),
               Bin("ge", Read(1), Const(2)),
               Both(Read(2), Read(3))>>[n]
      [] p = Chain ->
             <<Const(0),
               Bin("mul", Bin("ge", Read(1), Const(1)), Const(2)),
               Read(2),
               Const(0)>>[n]
      [] p = Batch ->
             <<Const(0), Const(0), Both(Read(1), Read(2)), Const(0)>>[n]
      [] p = Cond ->
             <<Const(0), Const(0),
               If(Read(1), Read(2), Const(0)),
               If(Read(1), Read(2), Read(3))>>[n]
      [] p = DiamondComputed ->
             <<Const(0),
               Bin("ge", Read(1), Const(1)),
               Bin("mul", Read(1), Const(2)),
               Bin("add", Read(2), Read(3))>>[n]
      [] p = Relay ->
             <<Const(0), Const(0),
               Write(2, Bin("ge", Read(1), Const(1))),
               Both(Read(2), Read(1))>>[n]
      [] p = Fanout ->
             <<Const(0), Bin("ge", Read(1), Const(1)), Read(1), Read(2)>>[n]
      [] p = Faulty ->
             <<Const(0),
               If(Read(1), Raise, Read(1)),
               Both(Read(1), Read(2)),
               Read(1)>>[n]
      [] p = Paused ->
             <<Const(0), Const(0), Read(2),
               Block(<<Pause, Read(2), Pause, Read(3), Resume, Read(3),
                       Resume, Read(1)>>)>>[n]
      [] p = Lazy ->
             <<Const(0),
               Bin("ge", Read(1), Const(1)),
               Bin("mul", Read(2), Const(2)),
               Const(0)>>[n]
      [] p = Reread ->
             <<Const(0),
               Read(1),
               Block(<<Read(1), Read(2), Read(1)>>),
               Const(0)>>[n]
      [] p = Unpaired ->
             <<Const(0), Const(0),
               Block(<<Read(2), Resume, Read(1)>>),
               Const(0)>>[n]
      [] p = Cycle ->
             <<Const(0),
               Bin("ge", Read(1), Const(1)),
               Read(4),
               Both(Read(3), Read(2))>>[n]
      [] p = Reentrant ->
             <<Const(0),
               Block(<<Read(1), Write(1, Const(1)), Read(2)>>),
               Read(2),
               Both(Read(4), Read(1))>>[n]
      [] p = Nested ->
             <<Const(0), Bin("ge", Read(1), Const(1)), NewEffect(4), Read(2)>>[n]
      [] p = Scoped ->
             <<Const(0), NewEffect(3), NewEffect(4), Read(1)>>[n]
      [] p = ScopeReads ->
             <<Const(0), Bin("ge", Read(1), Const(1)), Read(2), Const(0)>>[n]
      [] p = Grouped ->
             <<Const(0), NewEffect(3), Read(1), Read(1)>>[n]
      [] p = Optional ->
             <<Const(0), Const(0),
               If(Read(1), Const(0), NewEffect(4)),
               Read(2)>>[n]
      [] p = Redeclared ->
             <<Const(0), Both(Read(1), NewEffect(3)), Read(1), Read(1)>>[n]
      [] p = Thrower ->
             <<Const(0), If(Read(1), Raise, Const(0)), NewEffect(4), Read(2)>>[n]
      [] p = Deep ->
             <<Const(0),
               If(Bin("eq", Read(1), Const(1)), Raise, Read(1)),
               Read(2),
               Read(3)>>[n]

\* the Link objects some pointer still leads to; the others are garbage
RECURSIVE Reach(_, _)
Reach(m, S) ==
    LET T == (S \cup {m.links[l].prevSub : l \in S}
                \cup {m.links[l].nextSub : l \in S}
                \cup {m.links[l].nextDep : l \in S}) \ {NoLink}
    IN  IF T = S THEN S ELSE Reach(m, T)

Roots(m) ==
    UNION {{m.nodes[n].deps, m.nodes[n].depsTail,
            m.nodes[n].subs, m.nodes[n].subsTail} : n \in NodeIds} \ {NoLink}

Collect(m) ==
    LET live == Reach(m, Roots(m))
    IN  [l \in LinkIds |-> IF l \in live THEN m.links[l] ELSE BlankLink]

\* `const e: Effect = {...}` in a user function: the new object is a slot,
\* of those the program has for this effect, that was never used or that
\* nothing refers to any more (no Link, not the queue, no session, and no
\* stop handle: the user functions drop the handle)
Unreferenced(m, n) ==
    \/ m.nodes[n].kind = "none"
    \/ /\ Kind(prog, n) = "inner"
       /\ m.nodes[n].deps = NoLink /\ m.nodes[n].subs = NoLink
       /\ Tracking \notin m.nodes[n].flags
       /\ n \notin {m.activeSub, m.activeScope, m.queuedEffects,
                    m.queuedEffectsTail}
       /\ \A i \in DOMAIN m.pauseStack : m.pauseStack[i] # n
       /\ \A l \in Reach(m, Roots(m)) :
              m.links[l].dep # n /\ m.links[l].sub # n

NewObject(m, n) ==
    LET free == {k \in Slots(prog, n) : Unreferenced(m, k)}
    IN  IF free = {} THEN NoNode
        ELSE CHOOSE k \in free : \A j \in free : k <= j

(***************************************************************************)
(* The primitives (the second half of system.ts).                          *)
(***************************************************************************)
RECURSIVE Eval(_, _, _)
RECURSIVE checkDirtyLoop(_, _, _)
RECURSIVE checkDirtyUnwind(_, _, _, _)
RECURSIVE processEffectNotifications(_)

\* the dependencies of a subscriber, first to last (deps .. depsTail)
RECURSIVE DepsFrom(_, _, _)
DepsFrom(m, lnk, last) ==
    IF lnk = NoLink THEN <<>>
    ELSE IF lnk = last THEN <<m.links[lnk].dep>>
    ELSE <<m.links[lnk].dep>> \o DepsFrom(m, m.links[lnk].nextDep, last)

DepsOf(m, n) == DepsFrom(m, m.nodes[n].deps, m.nodes[n].depsTail)

\* the subscribers in the list that begins with lnk
RECURSIVE SubscribersWithin(_, _, _)
SubscribersWithin(m, lnk, k) ==
    IF lnk = NoLink \/ k = 0 THEN {}
    ELSE {m.links[lnk].sub}
             \cup SubscribersWithin(m, m.links[lnk].nextSub, k - 1)

SubscribersFrom(m, lnk) == SubscribersWithin(m, lnk, MaxLink)

\* lines 535-598 of checkDirty: after a dependency was looked at
checkDirtyAfter(m, lnk, stack, dirty) ==
    IF Thrown(m) THEN Ret(m, FALSE)
    ELSE IF ~dirty /\ m.links[lnk].nextDep # NoLink
    THEN checkDirtyLoop(m, m.links[lnk].nextDep, stack)
    ELSE IF stack > 0
    THEN checkDirtyUnwind(m, m.links[lnk].sub, stack, dirty)
    ELSE Ret(m, dirty)

\* lines 504-533
checkDirtyLoop(m, lnk, stack) ==
    LET dep == m.links[lnk].dep
        depFlags == m.nodes[dep].flags
        depSubs == m.nodes[dep].subs
    IN  IF HasFlags(m, dep) /\ {Computed, Dirty} \subseteq depFlags
        THEN Let(Invoke(m, "updateComputed", <<dep>>), LAMBDA r :
                 IF Thrown(r.m) THEN Ret(r.m, FALSE)
                 ELSE IF r.v
                 THEN IF r.m.links[r.m.nodes[dep].subs].nextSub # NoLink
                      THEN checkDirtyAfter(
                               shallowPropagate(r.m, r.m.nodes[dep].subs),
                               lnk, stack, TRUE)
                      ELSE checkDirtyAfter(r.m, lnk, stack, TRUE)
                 ELSE checkDirtyAfter(r.m, lnk, stack, FALSE))
        ELSE IF HasFlags(m, dep) /\ {Computed, PendingComputed} \subseteq depFlags
        THEN IF stack >= MaxStack
             THEN Ret(Throw(m, "diverged"), FALSE)
             ELSE IF m.links[depSubs].nextSub # NoLink
                  THEN checkDirtyLoop(SetPrevSub(m, depSubs, lnk),
                                      m.nodes[dep].deps, stack + 1)
                  ELSE checkDirtyLoop(m, m.nodes[dep].deps, stack + 1)
        ELSE checkDirtyAfter(m, lnk, stack, FALSE)

\* lines 573-594: the end of one turn of the inner do-while
checkDirtyBack(m, subSubs, stack) ==
    LET lnk == m.links[subSubs].prevSub
    IN  IF lnk # NoLink
        THEN IF m.links[lnk].nextDep # NoLink
             THEN checkDirtyLoop(SetPrevSub(m, subSubs, NoLink),
                                 m.links[lnk].nextDep, stack)
             ELSE IF stack > 0
             THEN checkDirtyUnwind(SetPrevSub(m, subSubs, NoLink),
                                   m.links[lnk].sub, stack, FALSE)
             ELSE Ret(SetPrevSub(m, subSubs, NoLink), FALSE)
        ELSE IF m.links[subSubs].nextDep # NoLink
        THEN checkDirtyLoop(m, m.links[subSubs].nextDep, stack)
        ELSE IF stack > 0
        THEN checkDirtyUnwind(m, m.links[subSubs].sub, stack, FALSE)
        ELSE Ret(m, FALSE)

\* lines 554-566: `sub` was recomputed to another value
checkDirtyUp(m, subSubs, stack) ==
    LET lnk == m.links[subSubs].prevSub
    IN  IF lnk # NoLink
        THEN Let(shallowPropagate(SetPrevSub(m, subSubs, NoLink), subSubs),
                 LAMBDA m1 :
                 IF Thrown(m1) THEN Ret(m1, FALSE)
                 ELSE IF stack > 0
                 THEN checkDirtyUnwind(m1, m1.links[lnk].sub, stack, TRUE)
                 ELSE Ret(m1, TRUE))
        ELSE IF stack > 0
        THEN checkDirtyUnwind(m, m.links[subSubs].sub, stack, TRUE)
        ELSE Ret(m, TRUE)

\* lines 545-595: one turn of the inner do-while, entered with stack > 0
checkDirtyUnwind(m, sub, stack, dirty) ==
    LET subSubs == m.nodes[sub].subs
    IN  IF dirty
        THEN Let(Invoke(m, "updateComputed", <<sub>>), LAMBDA r :
                 IF Thrown(r.m) THEN Ret(r.m, FALSE)
                 ELSE IF r.v THEN checkDirtyUp(r.m, subSubs, stack - 1)
                 ELSE checkDirtyBack(r.m, subSubs, stack - 1))
        ELSE checkDirtyBack(
                 SetFlags(m, sub, m.nodes[sub].flags \ {PendingComputed}),
                 subSubs, stack - 1)

checkDirty(m, lnk) == checkDirtyLoop(m, lnk, 0)

\* updateDirtyFlag that does not look at the dependencies
updateDirtyFlagUnchecked(m, sub, flags) ==
    Ret(SetFlags(m, sub, flags \ {PendingComputed}), FALSE)

updateDirtyFlag(m, sub, flags) ==
    Let(checkDirty(m, m.nodes[sub].deps), LAMBDA r :
        IF Thrown(r.m) THEN r
        ELSE IF r.v
        THEN Ret(SetFlags(r.m, sub, flags \cup {Dirty}), TRUE)
        ELSE Ret(SetFlags(r.m, sub, flags \ {PendingComputed}), FALSE))

\* lines 352-360
processComputedUpdateRun(m, computed) ==
    Let(Invoke(m, "updateComputed", <<computed>>), LAMBDA u :
        IF Thrown(u.m) THEN u.m
        ELSE IF u.v /\ u.m.nodes[computed].subs # NoLink
        THEN shallowPropagate(u.m, u.m.nodes[computed].subs)
        ELSE u.m)

\* processComputedUpdate that derives without a look at the dependencies
processComputedUpdateAlways(m, computed, flags) ==
    processComputedUpdateRun(m, computed)

\* processComputedUpdate that trusts the cache unless the Dirty flag is set
processComputedUpdateDirtyOnly(m, computed, flags) ==
    IF Dirty \in flags THEN processComputedUpdateRun(m, computed) ELSE m

processComputedUpdate(m, computed, flags) ==
    IF Dirty \in flags THEN processComputedUpdateRun(m, computed)
    ELSE Let(checkDirty(m, m.nodes[computed].deps), LAMBDA r :
             IF Thrown(r.m) THEN r.m
             ELSE IF r.v THEN processComputedUpdateRun(r.m, computed)
             ELSE SetFlags(r.m, computed, flags \ {PendingComputed}))

\* `try { ... } finally { activeSub = prevSub; endTracking(sub) }`, and the
\* record of the session for the history
\* `was`: the dependencies the subscriber had when the session began;
\* `threw`: what the function threw; `flags`, `deps`, `subs`: the flags of
\* the subscriber, its dependency list and the cells that have it in their
\* subscriber list when the session is closed
\* the finally block without `activeSub = prevSub`
FinallyActive(m, sub, prevSub, was) ==
    Let(endTracking(m, sub), LAMBDA m1 :
        Log(m1, [ev |-> "end", node |-> sub, was |-> was,
                 deps |-> DepsOf(m1, sub), threw |-> m.exc,
                 flags |-> m1.nodes[sub].flags,
                 subs |-> {d \in NodeIds :
                              sub \in SubscribersFrom(m1, m1.nodes[d].subs)}]))

Finally(m, sub, prevSub, was) ==
    Let(endTracking([m EXCEPT !.activeSub = prevSub], sub), LAMBDA m1 :
        Log(m1, [ev |-> "end", node |-> sub, was |-> was,
                 deps |-> DepsOf(m1, sub), threw |-> m.exc,
                 flags |-> m1.nodes[sub].flags,
                 subs |-> {d \in NodeIds :
                              sub \in SubscribersFrom(m1, m1.nodes[d].subs)}]))

\* updateComputed that reports every derivation as a change of the value
updateComputedChanged(m, computed) ==
    Let(startTracking([m EXCEPT !.activeSub = computed], computed), LAMBDA m1 :
    Let(Invoke(Log(m1, [ev |-> "derive", node |-> computed]),
               "Eval", <<computed, Body(prog, computed)>>), LAMBDA r :
        IF Thrown(r.m)
        THEN Ret(Finally(r.m, computed, m.activeSub, DepsOf(m, computed)),
                 FALSE)
        ELSE Ret(Finally([r.m EXCEPT !.nodes[computed].currentValue = r.v],
                         computed, m.activeSub, DepsOf(m, computed)), TRUE)))

updateComputed(m, computed) ==
    Let(startTracking([m EXCEPT !.activeSub = computed], computed), LAMBDA m1 :
    Let(Invoke(Log(m1, [ev |-> "derive", node |-> computed]),
               "Eval", <<computed, Body(prog, computed)>>), LAMBDA r :
        IF Thrown(r.m)
        THEN Ret(Finally(r.m, computed, m.activeSub, DepsOf(m, computed)),
                 FALSE)
        ELSE IF m1.nodes[computed].currentValue # r.v
        THEN Ret(Finally([r.m EXCEPT !.nodes[computed].currentValue = r.v],
                         computed, m.activeSub, DepsOf(m, computed)), TRUE)
        ELSE Ret(Finally(r.m, computed, m.activeSub, DepsOf(m, computed)),
                 FALSE)))

runEffect(m, e) ==
    Finally(Invoke(Log(startTracking([m EXCEPT !.activeSub = e], e),
                       [ev |-> "run", node |-> e]),
                   "Eval", <<e, Body(prog, e)>>).m,
            e, m.activeSub, DepsOf(m, e))

runEffectScope(m, e) ==
    Let(Invoke(Log(startTracking([m EXCEPT !.activeScope = e], e),
                   [ev |-> "run", node |-> e]),
               "Eval", <<e, Body(prog, e)>>).m, LAMBDA m1 :
    Let(endTracking([m1 EXCEPT !.activeScope = m.activeScope], e), LAMBDA m2 :
        Log(m2, [ev |-> "end", node |-> e, was |-> DepsOf(m, e),
                 deps |-> DepsOf(m2, e), threw |-> m1.exc,
                 flags |-> m2.nodes[e].flags,
                 subs |-> {d \in NodeIds :
                              e \in SubscribersFrom(m2, m2.nodes[d].subs)}])))

RECURSIVE processPendingInnerEffectsLoop(_, _)
processPendingInnerEffectsNext(m, lnk) ==
    IF Thrown(m) THEN m
    ELSE IF m.links[lnk].nextDep # NoLink
    THEN processPendingInnerEffectsLoop(m, m.links[lnk].nextDep)
    ELSE m

processPendingInnerEffectsLoop(m, lnk) ==
    LET dep == m.links[lnk].dep
    IN  IF /\ HasFlags(m, dep)
           /\ Effect \in m.nodes[dep].flags
           /\ m.nodes[dep].flags \cap Propagated # {}
        THEN processPendingInnerEffectsNext(
                 Invoke(m, "notifyEffect", <<dep>>).m, lnk)
        ELSE processPendingInnerEffectsNext(m, lnk)

\* processPendingInnerEffects that notifies no inner effect
processPendingInnerEffectsSkip(m, sub, flags) ==
    IF PendingEffect \in flags
    THEN SetFlags(m, sub, flags \ {PendingEffect})
    ELSE m

processPendingInnerEffects(m, sub, flags) ==
    IF PendingEffect \in flags
    THEN processPendingInnerEffectsLoop(
             SetFlags(m, sub, flags \ {PendingEffect}), m.nodes[sub].deps)
    ELSE m

\* function notifyEffect, lines 1015-1030
notifyEffectOfEffect(m, e) ==
    LET flags == m.nodes[e].flags
    IN  IF Dirty \in flags THEN Invoke(m, "runEffect", <<e>>)
        ELSE IF PendingComputed \in flags
        THEN Let(updateDirtyFlag(m, e, flags), LAMBDA r :
                 IF Thrown(r.m) THEN Ret(r.m, TRUE)
                 ELSE IF r.v THEN Invoke(r.m, "runEffect", <<e>>)
                 ELSE Ret(processPendingInnerEffects(r.m, e, r.m.nodes[e].flags),
                          TRUE))
        ELSE Ret(processPendingInnerEffects(m, e, flags), TRUE)

notifyEffectScope(m, e) ==
    IF PendingEffect \in m.nodes[e].flags
    THEN Ret(processPendingInnerEffects(m, e, m.nodes[e].flags), TRUE)
    ELSE Ret(m, FALSE)

\* the notifyEffect callback given to createReactiveSystem, lines 824-833
notifyEffect(m, e) ==
    IF m.nodes[e].kind = "scope"
    THEN notifyEffectScope(m, e)
    ELSE notifyEffectOfEffect(m, e)

\* lines 414-424: the head leaves the queue
dequeue(m, depsTail) ==
    LET queuedNext == m.links[depsTail].nextDep
    IN  IF queuedNext # NoLink
        THEN [SetNextDep(m, depsTail, NoLink)
                 EXCEPT !.queuedEffects = m.links[queuedNext].sub]
        ELSE [m EXCEPT !.queuedEffects = NoNode, !.queuedEffectsTail = NoNode]

processEffectNotifications(m) ==
    IF m.queuedEffects = NoNode THEN m
    ELSE
    LET effect == m.queuedEffects
        depsTail == m.nodes[effect].depsTail
    IN  IF depsTail = NoLink THEN Throw(m, "TypeError")
        ELSE Let(Invoke(Log(dequeue(m, depsTail),
                            [ev |-> "notify", node |-> effect]),
                        "notifyEffect", <<effect>>), LAMBDA r :
                 IF Thrown(r.m) THEN r.m
                 ELSE IF ~r.v
                 THEN processEffectNotifications(
                          SetFlags(r.m, effect,
                                   r.m.nodes[effect].flags \ {Notified}))
                 ELSE processEffectNotifications(r.m))

startBatch(m) == [m EXCEPT !.batchDepth = @ + 1]

\* pauseTracking that leaves the active subscriber in place
pauseTrackingKeep(m) == [m EXCEPT !.pauseStack = Append(@, m.activeSub)]

pauseTracking(m) ==
    [m EXCEPT !.pauseStack = Append(@, m.activeSub), !.activeSub = NoNode]

\* `pauseStack.pop()` is undefined when the stack is empty
resumeTracking(m) ==
    IF m.pauseStack = <<>> THEN [m EXCEPT !.activeSub = NoNode]
    ELSE [m EXCEPT !.activeSub = m.pauseStack[Len(m.pauseStack)],
                   !.pauseStack = SubSeq(@, 1, Len(@) - 1)]

\* endBatch that flushes at every depth
endBatchAlways(m) ==
    processEffectNotifications([m EXCEPT !.batchDepth = @ - 1])

endBatch(m) ==
    IF m.batchDepth - 1 = 0
    THEN processEffectNotifications([m EXCEPT !.batchDepth = @ - 1])
    ELSE [m EXCEPT !.batchDepth = @ - 1]

\* the setter that flushes inside a batch too
signalChangedFlush(m, this) ==
    IF m.nodes[this].subs # NoLink
    THEN Let(propagate(m, m.nodes[this].subs), LAMBDA m2 :
             IF Thrown(m2) THEN Ret(m2, Undefined)
             ELSE Invoke(m2, "processEffectNotifications", <<>>))
    ELSE Ret(m, Undefined)

\* lines 1086-1095: the value changed
signalChanged(m, this) ==
    IF m.nodes[this].subs # NoLink
    THEN Let(propagate(m, m.nodes[this].subs), LAMBDA m2 :
             IF Thrown(m2) THEN Ret(m2, Undefined)
             ELSE IF m2.batchDepth = 0
             THEN Invoke(m2, "processEffectNotifications", <<>>)
             ELSE Ret(m2, Undefined))
    ELSE Ret(m, Undefined)

\* signalGetterSetter that does not compare the value with the one held
signalGetterSetterAlways(m, this, value) ==
    IF Len(value) > 0
    THEN signalChanged(
             Log([m EXCEPT !.nodes[this].currentValue = value[1]],
                 [ev |-> "write", node |-> this]), this)
    ELSE IF m.activeSub # NoNode
    THEN Let(link(m, this, m.activeSub), LAMBDA m1 :
             Ret(m1, m1.nodes[this].currentValue))
    ELSE Ret(m, m.nodes[this].currentValue)

\* signalGetterSetter with one argument: `value` is <<v>>; with none: <<>>
signalGetterSetter(m, this, value) ==
    IF Len(value) > 0
    THEN IF m.nodes[this].currentValue # value[1]
         THEN signalChanged(
                  Log([m EXCEPT !.nodes[this].currentValue = value[1]],
                      [ev |-> "write", node |-> this]), this)
         ELSE Ret([m EXCEPT !.nodes[this].currentValue = value[1]], Undefined)
    ELSE IF m.activeSub # NoNode
    THEN Let(link(m, this, m.activeSub), LAMBDA m1 :
             Ret(m1, m1.nodes[this].currentValue))
    ELSE Ret(m, m.nodes[this].currentValue)

\* lines 1064-1072
computedGetterLink(m, this) ==
    IF Thrown(m) THEN Ret(m, Undefined)
    ELSE IF m.activeSub # NoNode
    THEN Let(link(m, this, m.activeSub), LAMBDA m2 :
             Ret(m2, m2.nodes[this].currentValue))
    ELSE IF m.activeScope # NoNode
    THEN Let(link(m, this, m.activeScope), LAMBDA m2 :
             Ret(m2, m2.nodes[this].currentValue))
    ELSE Ret(m, m.nodes[this].currentValue)

\* computedGetter that returns the cached value as it is
computedGetterCached(m, this) == computedGetterLink(m, this)

\* computedGetter that derives the value at every read
computedGetterEager(m, this) ==
    computedGetterLink(processComputedUpdateRun(m, this), this)

computedGetter(m, this) ==
    IF m.nodes[this].flags \cap {Dirty, PendingComputed} # {}
    THEN computedGetterLink(
             processComputedUpdate(m, this, m.nodes[this].flags), this)
    ELSE computedGetterLink(m, this)

\* running the user's function `e` on behalf of the subscriber `by`
Eval(m, by, e) ==
    CASE e.op = "const" -> Ret(m, e.v)
      [] e.op = "read" ->
             Let(IF m.nodes[e.n].kind = "signal"
                 THEN Invoke(m, "signalGetterSetter", <<e.n, <<>>>>)
                 ELSE Invoke(m, "computedGetter", <<e.n>>), LAMBDA r :
                 IF Thrown(r.m) THEN r
                 ELSE Ret(Log(r.m, [ev |-> "read", node |-> by,
                                    dep |-> e.n, val |-> r.v,
                                    sub |-> m.activeSub,
                                    at |-> Len(m.trace),
                                    flags |-> m.nodes[e.n].flags,
                                    cached |-> m.nodes[e.n].currentValue]),
                          r.v))
      [] e.op = "throw" -> Ret(Throw(m, "Error"), Undefined)
      [] e.op = "effect" ->
             IF NewObject(m, e.n) = NoNode
             THEN Ret([m EXCEPT !.oom = TRUE], Undefined)
             ELSE Invoke(m, "effect", <<NewObject(m, e.n)>>)
      [] e.op = "pause" ->
             Ret(pauseTracking(Log(m, [ev |-> "pause", node |-> by,
                                       depth |-> Len(m.pauseStack),
                                       sub |-> m.activeSub])),
                 Undefined)
      [] e.op = "resume" ->
             Ret(resumeTracking(Log(m, [ev |-> "resume", node |-> by,
                                        depth |-> Len(m.pauseStack),
                                        sub |-> m.activeSub])),
                 Undefined)
      [] e.op = "bin" ->
             Let(Eval(m, by, e.a), LAMBDA x :
                 IF Thrown(x.m) THEN x
                 ELSE Let(Eval(x.m, by, e.b), LAMBDA y :
                          IF Thrown(y.m) THEN y
                          ELSE Ret(y.m, Apply(e.f, x.v, y.v))))
      [] e.op = "if" ->
             Let(Eval(m, by, e.c), LAMBDA c :
                 IF Thrown(c.m) THEN c
                 ELSE IF c.v # 0 THEN Eval(c.m, by, e.a)
                 ELSE Eval(c.m, by, e.b))
      [] e.op = "seq" ->
             Let(Eval(m, by, e.a), LAMBDA x :
                 IF Thrown(x.m) THEN x ELSE Eval(x.m, by, e.b))
      [] e.op = "write" ->
             Let(Eval(m, by, e.a), LAMBDA x :
                 IF Thrown(x.m) THEN x
                 ELSE Invoke(x.m, "signalGetterSetter", <<e.n, <<x.v>>>>))

\* effect(fn) that links the new effect to nothing
effectDetached(m, e) ==
    runEffect(Log([m EXCEPT !.nodes[e] = NewNode("effect", {Effect}, Undefined)],
                  [ev |-> "effect", node |-> e, sub |-> m.activeSub,
                   scope |-> m.activeScope]), e)

\* effect(fn): the object is nodes[e], created here
effect(m, e) ==
    Let(Log([m EXCEPT !.nodes[e] = NewNode("effect", {Effect}, Undefined)],
            [ev |-> "effect", node |-> e, sub |-> m.activeSub,
             scope |-> m.activeScope]),
        LAMBDA m0 :
        IF m0.activeSub # NoNode
        THEN runEffect(link(m0, e, m0.activeSub), e)
        ELSE IF m0.activeScope # NoNode
        THEN runEffect(link(m0, e, m0.activeScope), e)
        ELSE runEffect(m0, e))

\* effectScope(fn): the object is nodes[e], created here
effectScope(m, e) ==
    runEffectScope([m EXCEPT !.nodes[e] = NewNode("scope", {Effect}, Undefined)],
                   e)

effectStop(m, this) ==
    endTracking(startTracking(Log(m, [ev |-> "stop", node |-> this]), this),
                this)

Invoke(m, f, args) ==
    CASE f = "Eval" -> Eval(m, args[1], args[2])
      [] f = "updateComputed" -> updateComputed(m, args[1])
      [] f = "runEffect" -> Ret(runEffect(m, args[1]), TRUE)
      [] f = "notifyEffect" -> notifyEffect(m, args[1])
      [] f = "processEffectNotifications" ->
             Ret(processEffectNotifications(m), Undefined)
      [] f = "signalGetterSetter" -> signalGetterSetter(m, args[1], args[2])
      [] f = "computedGetter" -> computedGetter(m, args[1])
      [] f = "endBatch" -> Ret(endBatch(m), Undefined)
      [] f = "effect" -> Ret(effect(m, args[1]), Undefined)

(***************************************************************************)
(* The state machine: one action per public call.                          *)
(***************************************************************************)
\* the machine a call starts from
Cur ==
    [nodes |-> nodes, links |-> links, queuedEffects |-> queuedEffects,
     queuedEffectsTail |-> queuedEffectsTail, batchDepth |-> batchDepth,
     activeSub |-> activeSub, activeScope |-> activeScope,
     pauseStack |-> pauseStack, trace |-> <<>>, exc |-> "none", oom |-> FALSE,
     hops |-> 0]

\* history: the derivations of each computed x between the last write that
\* changed a signal and the completion of the next read of c (kept for the
\* program DiamondComputed)
RECURSIVE Count(_, _, _)
Count(iv, tr, i) ==
    IF i > Len(tr) THEN iv
    ELSE LET e == tr[i]
             next ==
               CASE e.ev = "write" ->
                      [c \in NodeIds |->
                          IF Kind(prog, c) = "computed"
                          THEN [open |-> TRUE, n |-> [x \in NodeIds |-> 0]]
                          ELSE iv[c]]
                 [] e.ev = "derive" ->
                      [c \in NodeIds |->
                          IF iv[c].open
                          THEN [iv[c] EXCEPT !.n[e.node] =
                                   IF @ < 2 THEN @ + 1 ELSE @]
                          ELSE iv[c]]
                 [] e.ev = "read" -> [iv EXCEPT ![e.dep].open = FALSE]
                 [] OTHER -> iv
         IN  Count(next, tr, i + 1)

Range(f) == {f[i] : i \in DOMAIN f}

\* history: the cells each effect had before its latest run and did not
\* read in it (none once it is stopped)
RECURSIVE Pruned(_, _, _)
Pruned(pr, tr, i) ==
    IF i > Len(tr) THEN pr
    ELSE IF tr[i].ev = "stop"
    THEN Pruned([pr EXCEPT ![tr[i].node] = {}], tr, i + 1)
    ELSE IF tr[i].ev = "end" /\ Kind(prog, tr[i].node) = "effect"
    THEN Pruned([pr EXCEPT ![tr[i].node] = Range(tr[i].was) \ Range(tr[i].deps)],
                tr, i + 1)
    ELSE Pruned(pr, tr, i + 1)

\* history: the signals that the calls of the current outermost batch
\* changed, in order, as long as the batch is made of at most two writes
\* that change two signals; OtherBatch for every other batch (kept for the
\* program Batch)
OtherBatch == <<NoNode>>

BatchLog(call, tr) ==
    IF call.op = "startBatch"
    THEN IF call.depth = 0 THEN <<>> ELSE OtherBatch
    ELSE IF call.depth = 0 THEN <<>>
    ELSE IF call.op = "endBatch"
    THEN IF call.depth = 1 THEN batchLog ELSE OtherBatch
    ELSE IF /\ call.op = "write"
            /\ tr # <<>>
            /\ tr[1].ev = "write"
            /\ batchLog # OtherBatch
            /\ Len(batchLog) < 2
            /\ call.node \notin Range(batchLog)
    THEN Append(batchLog, call.node)
    ELSE OtherBatch

\* history: the links that the call created go after the ones that were
\* there, in the order of their creation (a call takes the lowest free
\* slot for each new Link); kept for the programs of Ordered
Ordered == {Fanout}

RECURSIVE Ascending(_)
Ascending(S) ==
    IF S = {} THEN <<>>
    ELSE LET x == CHOOSE y \in S : \A z \in S : y <= z
         IN  <<x>> \o Ascending(S \ {x})

Established(m) ==
    IF prog \notin Ordered THEN <<>>
    ELSE LET new == Collect(m)
             kept(l) == new[l].dep # NoNode
         IN  SelectSeq(established, kept)
                 \o Ascending({l \in LinkIds :
                                  kept(l) /\ links[l].dep = NoNode})

Call(op, node, val) ==
    [op |-> op, node |-> node, val |-> val,
     prev |-> IF op = "write" THEN nodes[node].currentValue ELSE Undefined,
     depth |-> batchDepth]

\* the call returned (or threw) with the machine m; after a call that
\* does not return there is no other call
Commit(m, call) ==
    /\ lastCall.threw # "diverged"
    /\ ~m.oom
    /\ nodes' = m.nodes
    /\ links' = Collect(m)
    /\ queuedEffects' = m.queuedEffects
    /\ queuedEffectsTail' = m.queuedEffectsTail
    /\ batchDepth' = m.batchDepth
    /\ activeSub' = m.activeSub
    /\ activeScope' = m.activeScope
    /\ pauseStack' = m.pauseStack
    /\ trace' = m.trace
    /\ lastCall' = [call |-> call, threw |-> m.exc]
    /\ intervals' = IF prog = DiamondComputed
                    THEN Count(intervals, m.trace, 1) ELSE intervals
    /\ pruned' = Pruned(pruned, m.trace, 1)
    /\ batchLog' = IF prog = Batch THEN BatchLog(call, m.trace) ELSE batchLog
    /\ established' = Established(m)
    /\ prog' = prog

Setup(ps) ==
    /\ prog \in ps
    /\ nodes = [n \in NodeIds |->
                  CASE Kind(prog, n) = "signal" -> NewNode("signal", {}, 0)
                    [] Kind(prog, n) = "computed" ->
                         NewNode("computed", {Computed, Dirty}, Undefined)
                    [] OTHER -> NewNode("none", {}, Undefined)]
    /\ links = [l \in LinkIds |-> BlankLink]
    /\ queuedEffects = NoNode
    /\ queuedEffectsTail = NoNode
    /\ batchDepth = 0
    /\ activeSub = NoNode
    /\ activeScope = NoNode
    /\ pauseStack = <<>>
    /\ stopped = {}
    /\ handles = {}
    /\ unpaired = 0
    /\ lastCall = [call |-> [op |-> "init", node |-> NoNode, val |-> Undefined,
                             prev |-> Undefined, depth |-> 0],
                   threw |-> "none"]
    /\ trace = <<>>
    /\ intervals = [c \in NodeIds |->
                      [open |-> FALSE, n |-> [x \in NodeIds |-> 0]]]
    /\ pruned = [n \in NodeIds |-> {}]
    /\ batchLog = <<>>
    /\ established = <<>>

Init == Setup(Programs)

\* s(v)
SignalWrite(s, v) ==
    /\ nodes[s].kind = "signal"
    /\ Commit(Invoke(Cur, "signalGetterSetter", <<s, <<v>>>>).m, Call("write", s, v))
    /\ UNCHANGED <<stopped, handles, unpaired>>

\* s()
SignalRead(s) ==
    /\ nodes[s].kind = "signal"
    /\ Commit(Invoke(Cur, "signalGetterSetter", <<s, <<>>>>).m, Call("get", s, Undefined))
    /\ UNCHANGED <<stopped, handles, unpaired>>

\* c(), from outside any derivation or effect body
ComputedRead(c) ==
    /\ nodes[c].kind = "computed"
    /\ Commit(Let(Invoke(Cur, "computedGetter", <<c>>), LAMBDA r :
                  IF Thrown(r.m) THEN r.m
                  ELSE Log(r.m, [ev |-> "read", node |-> NoNode,
                                 dep |-> c, val |-> r.v, sub |-> NoNode,
                                 at |-> 0, flags |-> nodes[c].flags,
                                 cached |-> nodes[c].currentValue])),
              Call("read", c, Undefined))
    /\ UNCHANGED <<stopped, handles, unpaired>>

StartBatch ==
    /\ batchDepth < MaxBatchDepth
    /\ Commit(startBatch(Cur), Call("startBatch", NoNode, Undefined))
    /\ UNCHANGED <<stopped, handles, unpaired>>

\* an endBatch() that is paired with a startBatch()
EndBatch ==
    /\ batchDepth + unpaired > 0
    /\ Commit(Invoke(Cur, "endBatch", <<>>).m, Call("endBatch", NoNode, Undefined))
    /\ UNCHANGED <<stopped, handles, unpaired>>

\* an endBatch() that no startBatch() is open for
EndBatchUnpaired ==
    /\ batchDepth + unpaired = 0
    /\ unpaired < MaxUnpaired
    /\ Commit(Invoke(Cur, "endBatch", <<>>).m, Call("endBatch", NoNode, Undefined))
    /\ unpaired' = unpaired + 1
    /\ UNCHANGED <<stopped, handles>>

\* pauseTracking(), from outside any derivation or effect body
PauseTracking ==
    /\ Len(pauseStack) < MaxPause
    /\ Commit(pauseTracking(Cur), Call("pause", NoNode, Undefined))
    /\ UNCHANGED <<stopped, handles, unpaired>>

\* resumeTracking(), from outside any derivation or effect body
ResumeTracking ==
    /\ Commit(resumeTracking(Cur), Call("resume", NoNode, Undefined))
    /\ UNCHANGED <<stopped, handles, unpaired>>

\* effect(fn), for an effect of the program that was not created yet; the
\* caller has the stop handle if the call returns
CreateEffect(e) ==
    /\ Kind(prog, e) = "effect"
    /\ nodes[e].kind = "none"
    /\ Commit(Invoke(Cur, "effect", <<e>>).m, Call("effect", e, Undefined))
    /\ handles' = IF lastCall'.threw = "none" THEN handles \cup {e}
                  ELSE handles
    /\ UNCHANGED <<stopped, unpaired>>

\* effectScope(fn), for a scope of the program that was not created yet
CreateScope(e) ==
    /\ Kind(prog, e) = "scope"
    /\ nodes[e].kind = "none"
    /\ Commit(effectScope(Cur, e), Call("effectScope", e, Undefined))
    /\ handles' = IF lastCall'.threw = "none" THEN handles \cup {e}
                  ELSE handles
    /\ UNCHANGED <<stopped, unpaired>>

\* the stop handle that effect(fn) or effectScope(fn) returned
Stop(e) ==
    /\ e \in handles
    /\ Commit(effectStop(Cur, e), Call("stop", e, Undefined))
    /\ stopped' = stopped \cup {e}
    /\ UNCHANGED <<handles, unpaired>>

\* the values a caller writes to signal s of program p (the signals of Cond,
\* of Faulty and of Deep are flags)
Inputs(p, s) == IF p \in {Cond, Faulty, Deep} THEN {0, 1} ELSE Values

Next ==
    \/ \E s \in NodeIds : \E v \in Inputs(prog, s) : SignalWrite(s, v)
    \/ \E s \in NodeIds : SignalRead(s)
    \/ \E c \in NodeIds : ComputedRead(c)
    \/ StartBatch
    \/ EndBatch
    \/ \E e \in NodeIds : CreateEffect(e)
    \/ \E e \in NodeIds : Stop(e)

Spec == Init /\ [][Next]_vars

\* The calls that the interface asks the caller to pair, unpaired too, and
\* the tracking controls called from outside a body.
InitMisuse == Setup(MisusePrograms)

NextMisuse ==
    \/ Next
    \/ EndBatchUnpaired
    \/ PauseTracking
    \/ ResumeTracking

SpecMisuse == InitMisuse /\ [][NextMisuse]_vars

\* The programs with effect scopes and with effects created in a body.
InitScoped == Setup(ScopedPrograms)

NextScoped ==
    \/ Next
    \/ \E e \in NodeIds : CreateScope(e)

SpecScoped == InitScoped /\ [][NextScoped]_vars

\* The programs in which a computed reads itself, directly or through
\* another computed.
InitCycle == Setup(CyclePrograms)

SpecCycle == InitCycle /\ [][Next]_vars

\* The program with five objects.
InitDeep == Setup(DeepPrograms)

SpecDeep == InitDeep /\ [][Next]_vars


(***************************************************************************)
(* What the claims speak of.                                               *)
(***************************************************************************)
\* the value of the user's expression e when signal n holds sig[n] and
\* every computed holds what its derivation yields
RECURSIVE Sem(_, _)
Sem(e, sig) ==
    CASE e.op = "const" -> e.v
      [] e.op = "read" ->
             IF Kind(prog, e.n) = "signal" THEN sig[e.n]
             ELSE Sem(Body(prog, e.n), sig)
      [] e.op = "bin" -> Apply(e.f, Sem(e.a, sig), Sem(e.b, sig))
      [] e.op = "if" ->
             IF Sem(e.c, sig) # 0 THEN Sem(e.a, sig) ELSE Sem(e.b, sig)
      [] e.op = "seq" -> Sem(e.b, sig)
      [] e.op = "write" -> Undefined
      [] e.op \in {"throw", "pause", "resume", "effect"} -> Undefined

\* the user's expression e has an operation `op` in it
RECURSIVE Has(_, _)
Has(e, op) ==
    \/ e.op = op
    \/ e.op \in {"bin", "seq"} /\ (Has(e.a, op) \/ Has(e.b, op))
    \/ e.op = "if" /\ (Has(e.c, op) \/ Has(e.a, op) \/ Has(e.b, op))
    \/ e.op = "write" /\ Has(e.a, op)

\* the current values of the signals
SigVal == [n \in NodeIds |-> nodes[n].currentValue]

\* what the derivation of computed c yields now, and what it yielded before
\* the last call, a write, replaced the value of its signal
Derived(c) == Sem(Body(prog, c), SigVal)
DerivedBefore(c) ==
    Sem(Body(prog, c),
        [SigVal EXCEPT ![lastCall.call.node] = lastCall.call.prev])

Events(ev, n) == {i \in DOMAIN trace : trace[i].ev = ev /\ trace[i].node = n}
Runs(e) == Cardinality(Events("run", e))
Enqueues(e) == Cardinality(Events("enqueue", e))
Derives(c) == Cardinality(Events("derive", c))
ReadsBy(n) == Events("read", n)
Live(e) == nodes[e].kind = "effect" /\ e \notin stopped
WriteOutsideBatch == lastCall.call.op = "write" /\ lastCall.call.depth = 0

(***************************************************************************)
(* The claims.                                                             *)
(***************************************************************************)
\* C1: glitch-freedom.  In the diamond (signal 1 read by computeds 2 and 3,
\* both read by effect 4), a write to the signal outside a batch runs the
\* body of the effect at most once, exactly once when the value of 2 or 3
\* changes, and every value of 2 and 3 the effect reads in that call is the
\* one derived from the new value of the signal.
C1_GlitchFreedom ==
    (prog = Diamond /\ Live(4) /\ WriteOutsideBatch) =>
        /\ Runs(4) <= 1
        /\ (\E c \in {2, 3} : Derived(c) # DerivedBefore(c)) => Runs(4) = 1
        /\ \A i \in ReadsBy(4) : trace[i].val = Derived(trace[i].dep)
        /\ Runs(4) = 1 => {trace[i].dep : i \in ReadsBy(4)} = {2, 3}

\* a write that changes both computeds, and the effect ran
C1_Witness ==
    /\ prog = Diamond /\ Live(4) /\ WriteOutsideBatch
    /\ \A c \in {2, 3} : Derived(c) # DerivedBefore(c)
    /\ Runs(4) = 1

\* C2: in the chain signal 1 -> computed 2 -> effect 3, creating the effect
\* runs its body once, a write to 1 outside a batch that changes the value
\* of 2 runs it exactly once more, and every value of 2 the body ever reads
\* is the one derived from the value 1 holds at that time.
C2_Chain ==
    prog = Chain =>
        /\ (lastCall.call.op = "effect" /\ lastCall.call.node = 3) =>
               Runs(3) = 1
        /\ (Live(3) /\ WriteOutsideBatch /\ Derived(2) # DerivedBefore(2)) =>
               Runs(3) = 1
        /\ Runs(3) > 0 => ReadsBy(3) # {}
        /\ \A i \in ReadsBy(3) :
               trace[i].dep = 2 /\ trace[i].val = Derived(2)

\* a write changed the computed and the effect re-ran
C2_Witness ==
    /\ prog = Chain /\ Live(3) /\ WriteOutsideBatch
    /\ Derived(2) # DerivedBefore(2)
    /\ Runs(3) = 1
    /\ \E i \in ReadsBy(3) : trace[i].val = 2

\* C3: no stale reads.  In a program in which no body throws and no
\* derivation writes a signal, after any sequence of signal writes,
\* batches, computed reads and effect runs (no stop handle was called),
\* every read of a computed, by a call from outside (no call being in
\* progress) or by a body, returns the value its derivation yields over the
\* current values of the signals.
C3_NoStaleRead ==
    (/\ stopped = {}
     /\ \A n \in NodeIds : ~Has(Body(prog, n), "throw")
     /\ \A n \in NodeIds :
            Kind(prog, n) = "computed" => ~Has(Body(prog, n), "write")) =>
        \A i \in DOMAIN trace :
            (trace[i].ev = "read" /\ Kind(prog, trace[i].dep) = "computed") =>
                trace[i].val = Derived(trace[i].dep)

\* a read from outside of a computed that reads computeds, which had to be
\* derived again and is not at its first value
C3_Witness ==
    /\ prog = DiamondComputed
    /\ lastCall.call.op = "read" /\ lastCall.call.node = 4
    /\ Derives(4) = 1
    /\ nodes[4].currentValue = 3
    /\ nodes[1].currentValue = 1

\* C4: minimal recomputation.  Writing to a signal the value it holds
\* changes no flag, no link, no value and not the queue, and derives and
\* runs nothing.
C4_SameValueStep ==
    (lastCall'.call.op = "write" /\ lastCall'.call.prev = lastCall'.call.val)
        => /\ UNCHANGED <<nodes, links, queuedEffects, queuedEffectsTail>>
           /\ trace' = <<>>

C4_SameValue == [][C4_SameValueStep]_vars

\* the value held was written to a signal that a live effect and a
\* computed subscribe to
C4_Witness ==
    /\ lastCall.call.op = "write"
    /\ lastCall.call.prev = lastCall.call.val
    /\ lastCall.call.val # 0
    /\ prog = Diamond /\ Live(4)
    /\ nodes[1].subs # NoLink

\* C5: batch coalescing.  Effect 3 reads signals 1 and 2.  In the sequence
\* startBatch(); a write that changes one; a write that changes the other;
\* endBatch(), no write runs the body (no write inside a batch does), and
\* endBatch runs it exactly once, reading the values the two signals now
\* hold.
C5_BatchCoalescing ==
    (prog = Batch /\ Live(3)) =>
        /\ (lastCall.call.op = "write" /\ lastCall.call.depth > 0) =>
               Runs(3) = 0
        /\ (/\ lastCall.call.op = "endBatch"
            /\ lastCall.call.depth = 1
            /\ Range(batchLog) = {1, 2}) =>
               /\ Runs(3) = 1
               /\ {trace[i].dep : i \in ReadsBy(3)} = {1, 2}
               /\ \A i \in ReadsBy(3) : trace[i].val = SigVal[trace[i].dep]

\* the endBatch of such a sequence ran the effect, both signals holding
\* values they did not hold at the start
C5_Witness ==
    /\ prog = Batch /\ Live(3)
    /\ lastCall.call.op = "endBatch" /\ lastCall.call.depth = 1
    /\ batchLog = <<1, 2>>
    /\ Runs(3) = 1
    /\ SigVal[1] = 2 /\ SigVal[2] = 1

Drains == {i \in DOMAIN trace : trace[i].ev = "notify"}

\* C6: no call made while the batch depth is greater than zero takes an
\* effect off the pending-effects queue (no signal write, no inner
\* endBatch), but for the endBatch that returns the depth to zero.
C6_NoDrainInBatch ==
    (/\ lastCall.call.depth > 0
     /\ ~(lastCall.call.op = "endBatch" /\ lastCall.call.depth = 1)) =>
        Drains = {}

\* an inner endBatch returned and left an effect on the queue
C6_Witness ==
    /\ lastCall.call.op = "endBatch"
    /\ lastCall.call.depth = 2
    /\ queuedEffects # NoNode
    /\ Live(queuedEffects)

\* the subscribers in the list of a cell, and the cells in the list of a
\* subscriber
SubsFrom(lnk) == SubscribersFrom(Cur, lnk)

SubsOf(d) == SubsFrom(nodes[d].subs)
DepSet(n) == Range(DepsOf(Cur, n))

\* the cells n reaches through its list and the lists of the computeds
RECURSIVE ReachesIn(_, _)
ReachesIn(n, k) ==
    IF k = 0 THEN {}
    ELSE DepSet(n) \cup UNION {ReachesIn(d, k - 1) : d \in DepSet(n)}

Reaches(n) == ReachesIn(n, MaxNode)

\* the session that the "end" event j ends began at event SessionStart(j)
SessionStart(j) ==
    CHOOSE i \in 1..j :
        /\ trace[i].ev \in {"run", "derive"}
        /\ trace[i].node = trace[j].node
        /\ \A k \in (i + 1)..j :
               ~(trace[k].ev \in {"run", "derive"}
                 /\ trace[k].node = trace[j].node)

\* the pauseTracking() calls that the body made in its session before
\* event j and has not matched with a resumeTracking()
PausesBefore(j) ==
    Cardinality({i \in SessionStart(j)..(j - 1) :
                    trace[i].ev = "pause" /\ trace[i].node = trace[j].node})
    - Cardinality({i \in SessionStart(j)..(j - 1) :
                      trace[i].ev = "resume" /\ trace[i].node = trace[j].node})

\* the cells that the session read while its tracking was not paused
ReadInSession(j) ==
    {trace[k].dep : k \in {k \in SessionStart(j)..j :
                              /\ trace[k].ev = "read"
                              /\ trace[k].node = trace[j].node
                              /\ PausesBefore(k) = 0}}

\* when a session ends, the dependency list is the set of cells read in it
C7_Sessions ==
    \A j \in DOMAIN trace :
        trace[j].ev = "end" => Range(trace[j].deps) = ReadInSession(j)

\* when a session ends, no cell that was in the dependency list before the
\* session and is not in it now has the subscriber in its subscriber list
C7_Unlinked ==
    \A j \in DOMAIN trace :
        trace[j].ev = "end" =>
            \A d \in Range(trace[j].was) \ Range(trace[j].deps) :
                d \notin trace[j].subs

\* a write to a signal that the latest run of an effect dropped, and that
\* the effect does not reach through the cells it kept, neither enqueues
\* nor runs the effect
C7_NoRetrigger ==
    \A e \in NodeIds :
        (/\ lastCall'.call.op = "write"
         /\ lastCall'.call.node \in pruned[e]
         /\ lastCall'.call.node \notin Reaches(e)) =>
            \A i \in DOMAIN trace' :
                ~(trace'[i].node = e /\ trace'[i].ev \in {"enqueue", "run"})

\* C7: dependency pruning.  After an effect or computed finishes a tracking
\* session its dependency set is exactly the set of cells it read in that
\* session; a cell read in the run before and not in the latest is in
\* neither list, and a later write to it does not enqueue or run the
\* effect.
C7_Pruning ==
    /\ [](C7_Sessions /\ C7_Unlinked)
    /\ [][C7_NoRetrigger]_vars

\* the effect of Cond stopped reading signal 2 in its latest run, and a
\* write then changed signal 2
C7_Witness ==
    /\ prog = Cond /\ Live(4)
    /\ WriteOutsideBatch
    /\ lastCall.call.node = 2
    /\ lastCall.call.prev # lastCall.call.val
    /\ 2 \in pruned[4]
    /\ Enqueues(4) = 0 /\ Runs(4) = 0

\* C8: stop semantics.  Once the stop handle of an effect was called the
\* effect has no dependency links, no cell has it as a subscriber, and
\* no call runs its body.
C8_Stop ==
    \A e \in stopped :
        /\ nodes[e].deps = NoLink
        /\ nodes[e].depsTail = NoLink
        /\ \A d \in NodeIds : e \notin SubsOf(d)
        /\ Runs(e) = 0

\* C9: diamond dedup.  Computed 4 reaches signal 1 through computeds 2 and
\* 3.  Between a write to signal 1 and the completion of the next read of
\* computed 4, the derivations of 4, of 2 and of 3 are each invoked at most
\* once.
C9_DiamondDedup ==
    prog = DiamondComputed => \A x \in {2, 3, 4} : intervals[4].n[x] <= 1

\* a read of computed 4 completed after a write, and 2, 3 and 4 were each
\* derived in between
C9_Witness ==
    /\ prog = DiamondComputed
    /\ lastCall.call.op = "read" /\ lastCall.call.node = 4
    /\ ~intervals[4].open
    /\ \A x \in {2, 3, 4} : intervals[4].n[x] = 1
    /\ nodes[1].currentValue = 2

\* C10: a call that makes a single signal write (the flush writes no
\* signal in turn) appends each effect to the pending-effects queue at
\* most once and runs its body at most once.
C10_OncePerWrite ==
    (/\ lastCall.call.op = "write"
     /\ Cardinality({i \in DOMAIN trace : trace[i].ev = "write"}) = 1) =>
        \A e \in NodeIds : Enqueues(e) <= 1 /\ Runs(e) <= 1

\* two of the three dependencies of an effect changed, along two paths
\* from the signal written
C10_Witness ==
    /\ prog = Diamond /\ Live(4)
    /\ WriteOutsideBatch
    /\ lastCall.call.prev = 2 /\ lastCall.call.val = 0
    /\ Enqueues(4) = 1
    /\ Runs(4) = 1

\* the nodes of the events `ev` of a trace, in order
RECURSIVE NodesOf(_, _)
NodesOf(tr, ev) ==
    IF tr = <<>> THEN <<>>
    ELSE IF Head(tr).ev = ev THEN <<Head(tr).node>> \o NodesOf(Tail(tr), ev)
    ELSE NodesOf(Tail(tr), ev)

\* the effects a depth-first walk of the subscriber lists from lnk reaches,
\* each where the walk first reaches it: a list is walked from its first
\* link (the oldest) to its last, and the subscribers of a subscriber are
\* walked before its next sibling
RECURSIVE Walk(_, _)
Walk(lnk, acc) ==
    IF lnk = NoLink THEN acc
    ELSE LET sub == links[lnk].sub
             here == [seen |-> acc.seen \cup {sub},
                      seq |-> IF nodes[sub].kind = "effect"
                                 /\ nodes[sub].subs = NoLink
                              THEN Append(acc.seq, sub) ELSE acc.seq]
         IN  IF sub \in acc.seen THEN Walk(links[lnk].nextSub, acc)
             ELSE Walk(links[lnk].nextSub,
                       IF nodes[sub].subs # NoLink
                       THEN Walk(nodes[sub].subs, here) ELSE here)

WalkFrom(s) == Walk(nodes[s].subs, [seen |-> {}, seq |-> <<>>]).seq

\* r lists some of the elements of s, in the order s has them
InOrder(r, s) ==
    /\ Range(r) \subseteq Range(s)
    /\ \A i, j \in DOMAIN r :
           i < j => \E a, b \in DOMAIN s : a < b /\ s[a] = r[i] /\ s[b] = r[j]

SingleWrite(call, tr) ==
    /\ call.op = "write" /\ call.depth = 0
    /\ Cardinality({i \in DOMAIN tr : tr[i].ev = "write"}) = 1

\* the links of a subscriber: the positions it has in `established`
LinksOf(n) == {i \in DOMAIN established : links[established[i]].sub = n}

\* C11 as stated: of two effects that a single write enqueues, the one
\* enqueued first has a link that was established before a link of the
\* other.
C11_InsertionOrder ==
    (prog \in Ordered /\ SingleWrite(lastCall.call, trace)) =>
        \A i, j \in DOMAIN trace :
            (i < j /\ trace[i].ev = "enqueue" /\ trace[j].ev = "enqueue") =>
                \E a \in LinksOf(trace[i].node), b \in LinksOf(trace[j].node) :
                    a < b

Prefix(r, s) == Len(r) <= Len(s) /\ r = SubSeq(s, 1, Len(r))

C11_WalkOrderStep ==
    SingleWrite(lastCall'.call, trace') =>
        /\ InOrder(NodesOf(trace', "enqueue"), WalkFrom(lastCall'.call.node))
        /\ Prefix(NodesOf(trace', "notify"),
                  QueueOf(Cur) \o NodesOf(trace', "enqueue"))
        /\ InOrder(NodesOf(trace', "run"),
                   QueueOf(Cur) \o NodesOf(trace', "enqueue"))
        /\ lastCall'.threw = "none" =>
               /\ \A e \in Range(WalkFrom(lastCall'.call.node)) :
                      \/ e \in Range(NodesOf(trace', "enqueue"))
                      \/ Notified \in nodes[e].flags
               /\ nodes[lastCall'.call.node].subs # NoLink =>
                      NodesOf(trace', "notify") =
                          QueueOf(Cur) \o NodesOf(trace', "enqueue")

\* C11 (amended): notification order.  A single write outside a batch
\* enqueues the effects that are not pending already in the order in which
\* a depth-first walk of the subscriber lists from the written signal first
\* reaches them (each list in the order its links were established, the
\* subscribers of a computed before the next subscriber of the signal);
\* the effects are taken off the queue, and the ones that have to run are
\* run, in the order in which they were enqueued, after the ones that an
\* earlier call left on the queue.
C11_WalkOrder == [][C11_WalkOrderStep]_vars

\* the write reached an effect through a computed before an effect whose
\* link to the signal is older, and both ran
C11_Witness ==
    /\ prog = Fanout /\ SingleWrite(lastCall.call, trace)
    /\ NodesOf(trace, "enqueue") = <<4, 3>>
    /\ NodesOf(trace, "run") = <<4, 3>>
    /\ \E a \in LinksOf(3) : \A b \in LinksOf(4) : a < b

\* the first event after i that is neither an "enqueue" nor a "mark", the
\* two things propagate itself does (Len(trace) + 1 if none)
Return(i) ==
    IF \E j \in (i + 1)..Len(trace) : trace[j].ev \notin {"enqueue", "mark"}
    THEN CHOOSE j \in (i + 1)..Len(trace) :
             /\ trace[j].ev \notin {"enqueue", "mark"}
             /\ \A k \in (i + 1)..(j - 1) : trace[k].ev \in {"enqueue", "mark"}
    ELSE Len(trace) + 1

Suffix(r, s) ==
    Len(r) <= Len(s) /\ r = SubSeq(s, Len(s) - Len(r) + 1, Len(s))

\* C12: propagate never calls user code.  From the entry to propagate to
\* its return no derivation and no effect body is invoked -- the only thing
\* that happens is that effects are enqueued -- and when it returns, the
\* effects it enqueued are the last of the pending-effects queue, in the
\* order in which it enqueued them.
C12_PropagatePure ==
    \A i \in DOMAIN trace :
        trace[i].ev = "propagate" =>
            \/ Return(i) = Len(trace) + 1 /\ lastCall.threw # "none"
            \/ /\ Return(i) <= Len(trace)
               /\ trace[Return(i)].ev = "propagated"
               /\ Suffix(NodesOf(SubSeq(trace, i + 1, Return(i) - 1), "enqueue"),
                         trace[Return(i)].queue)

\* a propagate enqueued two effects and returned, and the two were run
\* after its return
C12_Witness ==
    \E i \in DOMAIN trace :
        /\ trace[i].ev = "propagate"
        /\ Return(i) <= Len(trace)
        /\ trace[Return(i)].ev = "propagated"
        /\ Len(NodesOf(SubSeq(trace, i + 1, Return(i) - 1), "enqueue")) = 2
        /\ Len(trace[Return(i)].queue) = 2
        /\ \A e \in Range(trace[Return(i)].queue) :
               \E j \in (Return(i) + 1)..Len(trace) :
                   trace[j].ev = "run" /\ trace[j].node = e

\* the sessions that a throw of the user's function closed
ThrownEnds == {j \in DOMAIN trace : trace[j].ev = "end" /\ trace[j].threw # "none"}

OpenBatches == batchDepth + unpaired

\* C14: an endBatch() called while no startBatch() is open leaves the batch
\* depth at 0, and so a signal write made afterwards while no startBatch()
\* is open notifies every effect that it put on the queue before it returns.
C14_UnpairedEndBatch ==
    /\ lastCall.call.op = "endBatch" /\ lastCall.call.depth = 0
           => batchDepth = 0
    /\ /\ lastCall.call.op = "write"
       /\ lastCall.threw = "none"
       /\ OpenBatches = 0
       => Range(NodesOf(trace, "enqueue")) \subseteq Range(NodesOf(trace, "notify"))

\* the reads that the body made after event k of its session and before
\* its next pauseTracking()
ReadsAfter(k) ==
    {j \in DOMAIN trace :
        /\ j > k
        /\ trace[j].ev = "read"
        /\ trace[j].node = trace[k].node
        /\ \A i \in k..j : trace[i].ev = "end" => trace[i].node # trace[k].node
        /\ \A i \in (k + 1)..j :
               trace[i].ev = "pause" => trace[i].node # trace[k].node}

\* the close of the session that event k is in
CloseOf(k) ==
    {j \in DOMAIN trace :
        /\ j > k
        /\ trace[j].ev = "end"
        /\ trace[j].node = trace[k].node
        /\ SessionStart(j) <= k}

\* C15: a resumeTracking() called in a running effect body while the pause
\* stack is empty leaves the active subscriber as it was: the reads that the
\* body makes afterwards are made with the effect as the active subscriber
\* and are among its dependencies when the session is closed.
C15_UnpairedResume ==
    \A k \in DOMAIN trace :
        /\ trace[k].ev = "resume"
        /\ trace[k].depth = 0
        /\ trace[k].sub = trace[k].node
        => \A j \in ReadsAfter(k) :
               /\ trace[j].sub = trace[k].sub
               /\ \A c \in CloseOf(k) : trace[j].dep \in Range(trace[c].deps)

\* C18: in a running effect body, a read made between a pauseTracking()
\* and its matching resumeTracking() has no active subscriber, and when the
\* session is closed a cell read only while paused is not a dependency of
\* the effect and has not the effect among its subscribers; before the
\* pause and after the matching resumeTracking(), nested pairs too, the
\* active subscriber is the effect.
C18_PausedReads ==
    \A j \in DOMAIN trace :
        /\ trace[j].ev \in {"read", "pause", "resume"}
        /\ trace[j].node # NoNode
        /\ Kind(prog, trace[j].node) = "effect"
        => /\ PausesBefore(j) = 0 => trace[j].sub = trace[j].node
           /\ PausesBefore(j) > 0 => trace[j].sub = NoNode
           /\ \A c \in CloseOf(j) :
                  /\ trace[j].ev = "read"
                  /\ trace[j].dep \notin ReadInSession(c)
                  => /\ trace[j].dep \notin Range(trace[c].deps)
                     /\ trace[j].dep \notin trace[c].subs

\* the effect was re-run by a write, and read in a nested pause and again
\* after the outer resumeTracking()
C18_Witness ==
    /\ lastCall.call.op = "write"
    /\ \E j, k \in DOMAIN trace :
           /\ j < k
           /\ trace[j].ev = "read" /\ trace[k].ev = "read"
           /\ trace[j].node # NoNode
           /\ Kind(prog, trace[j].node) = "effect"
           /\ trace[k].node = trace[j].node
           /\ PausesBefore(j) = 2
           /\ PausesBefore(k) = 0
           /\ \E c \in CloseOf(k) :
                  /\ trace[k].dep \in Range(trace[c].deps)
                  /\ trace[j].dep \notin Range(trace[c].deps)

\* C16: every call returns: propagate and checkDirty come to an end on the
\* graphs that have a cycle of computeds, as on the others.
C16_Terminates == lastCall.threw # "diverged"

\* C17: a read of a computed that is made while the Tracking flag of that
\* computed is set returns the value the computed held when the read was
\* made, and the derivation of the computed is not invoked in the read.
C17_ReentrantRead ==
    \A j \in DOMAIN trace :
        /\ trace[j].ev = "read"
        /\ Tracking \in trace[j].flags
        => /\ trace[j].val = trace[j].cached
           /\ \A i \in (trace[j].at + 1)..j :
                  ~(trace[i].ev = "derive" /\ trace[i].node = trace[j].dep)

\* the first close of a session of node n after event i
EndAfter(i, n) ==
    {j \in DOMAIN trace :
        /\ j > i
        /\ trace[j].ev = "end" /\ trace[j].node = n
        /\ \A k \in (i + 1)..(j - 1) :
               ~(trace[k].ev = "end" /\ trace[k].node = n)}

\* the effects that the session closed by event j created while it was the
\* active subscriber, or the active scope with no subscriber active
CreatedInSession(j) ==
    {trace[k].node : k \in {k \in SessionStart(j)..j :
                               /\ trace[k].ev = "effect"
                               /\ \/ trace[k].sub = trace[j].node
                                  \/ /\ trace[k].sub = NoNode
                                     /\ trace[k].scope = trace[j].node}}

\* C19: effect(body) starts a session and runs body at once, and once only
\* before it returns: the reads of the body have the effect as the active
\* subscriber, and when the session is closed the dependencies of the effect
\* are the cells the body read and the effects it created.  An effect
\* created while a subscriber is active is a dependency of that subscriber
\* (and not of the scope), one created while only a scope is active is a
\* dependency of the scope, and one created with neither has no subscriber.
C19_EffectRunsOnce ==
    \A i \in DOMAIN trace :
        trace[i].ev = "effect" =>
            LET e == trace[i].node
                p == IF trace[i].sub # NoNode THEN trace[i].sub
                     ELSE trace[i].scope
            IN  /\ i < Len(trace)
                /\ trace[i + 1].ev = "run" /\ trace[i + 1].node = e
                /\ EndAfter(i, e) # {}
                /\ \A c \in EndAfter(i, e) :
                       /\ SessionStart(c) = i + 1
                       /\ \A k \in (i + 1)..c :
                              trace[k].ev = "read" /\ trace[k].node = e
                                  => trace[k].sub = e
                       /\ Range(trace[c].deps) =
                              ReadInSession(c) \cup CreatedInSession(c)
                       /\ trace[c].was = <<>>
                /\ lastCall.call.op = "effect" /\ lastCall.call.node = e
                       => /\ Len(trace) \in EndAfter(i, e)
                          /\ Cardinality(Events("run", e)) = 1
                /\ p # NoNode =>
                       /\ EndAfter(i, p) # {}
                       /\ \A c \in EndAfter(i, p) :
                              /\ e \in Range(trace[c].deps)
                              /\ e \in trace[c].subs
                /\ trace[i].sub # NoNode /\ trace[i].scope # NoNode =>
                       \A c \in EndAfter(i, trace[i].scope) :
                           e \notin Range(trace[c].deps)
                /\ p = NoNode => nodes[e].subs = NoLink

\* a scope created an effect, which created an effect that read a signal
C19_Witness ==
    /\ lastCall.call.op = "effectScope"
    /\ lastCall.threw = "none"
    /\ \E i, j \in DOMAIN trace :
           /\ trace[i].ev = "effect" /\ trace[j].ev = "effect"
           /\ trace[i].sub = NoNode /\ trace[i].scope = lastCall.call.node
           /\ trace[j].sub = trace[i].node
           /\ trace[j].scope = lastCall.call.node
           /\ trace[j].node \in DepSet(trace[i].node)
           /\ trace[i].node \in DepSet(lastCall.call.node)
           /\ DepSet(trace[j].node) # {}

\* the read of a computed that event j records found neither Dirty nor
\* PendingComputed set, or found PendingComputed only
CleanRead(j) ==
    /\ trace[j].ev = "read"
    /\ Kind(prog, trace[j].dep) = "computed"
    /\ trace[j].flags \cap {Dirty, PendingComputed} = {}
PendingRead(j) ==
    /\ trace[j].ev = "read"
    /\ Kind(prog, trace[j].dep) = "computed"
    /\ trace[j].flags \cap {Dirty, PendingComputed} = {PendingComputed}

\* the derivations of the computed that were invoked in the read
DerivedInRead(j) ==
    {i \in (trace[j].at + 1)..j :
        trace[i].ev = "derive" /\ trace[i].node = trace[j].dep}

\* no derivation is invoked when the cells are created; a read of a
\* computed with neither flag set invokes no derivation of it and returns
\* the cached value
C20_Cached ==
    /\ lastCall.call.op = "init" =>
           /\ trace = <<>>
           /\ \A c \in NodeIds :
                  Kind(prog, c) = "computed" =>
                      nodes[c].currentValue = Undefined
    /\ \A j \in DOMAIN trace :
           CleanRead(j) =>
               /\ DerivedInRead(j) = {}
               /\ trace[j].val = trace[j].cached

\* a read by the caller of a computed with only PendingComputed set, in
\* which no dependency of the computed gets another value
C20_Unchanged ==
    /\ lastCall'.call.op = "read"
    /\ lastCall'.threw = "none"
    /\ nodes[lastCall'.call.node].flags \cap {Dirty, PendingComputed}
           = {PendingComputed}
    /\ \A d \in DepSet(lastCall'.call.node) :
           nodes'[d].currentValue = nodes[d].currentValue

C20_LazyStep ==
    C20_Unchanged =>
        /\ PendingComputed \notin nodes'[lastCall'.call.node].flags
        /\ \A j \in DOMAIN trace' :
               trace'[j].ev # "derive" \/ trace'[j].node # lastCall'.call.node
        /\ trace'[Len(trace')].val = nodes[lastCall'.call.node].currentValue
        /\ nodes'[lastCall'.call.node].currentValue
               = nodes[lastCall'.call.node].currentValue

\* C20: a computed is lazy and cached.  Its derivation is not invoked when
\* it is created; a read that finds neither Dirty nor PendingComputed set
\* returns the cached value and invokes no derivation of it; a read that
\* finds only PendingComputed set and in which no dependency gets another
\* value clears PendingComputed, returns the cached value and invokes no
\* derivation of it.
C20_LazyCached == []C20_Cached /\ [][C20_LazyStep]_vars

\* a read by the caller found only PendingComputed set, derived the
\* dependency again to the value it had, and returned the cached value
C20_Witness ==
    /\ lastCall.call.op = "read"
    /\ lastCall.threw = "none"
    /\ PendingRead(Len(trace))
    /\ DerivedInRead(Len(trace)) = {}
    /\ \E d \in DepSet(lastCall.call.node) : Derives(d) = 1
    /\ trace[Len(trace)].val = trace[Len(trace)].cached
    /\ PendingComputed \notin nodes[lastCall.call.node].flags

\* C21: whenever the batch depth is zero and no call is in progress, the
\* pending-effects queue is empty.
C21_QueueEmpty == batchDepth = 0 => queuedEffects = NoNode

\* C22: an effect scope never has the Dirty flag set.
C22_ScopeNeverDirty ==
    \A n \in NodeIds : nodes[n].kind = "scope" => Dirty \notin nodes[n].flags

\* the effects that the user's expression e creates
RECURSIVE NewIn(_)
NewIn(e) ==
    CASE e.op = "effect" -> {e.n}
      [] e.op \in {"bin", "seq"} -> NewIn(e.a) \cup NewIn(e.b)
      [] e.op = "if" -> NewIn(e.c) \cup NewIn(e.a) \cup NewIn(e.b)
      [] e.op = "write" -> NewIn(e.a)
      [] OTHER -> {}

\* the effects created in the body of n, and in the bodies of those
RECURSIVE InsideIn(_, _)
InsideIn(n, k) ==
    IF k = 0 THEN {}
    ELSE NewIn(Body(prog, n))
             \cup UNION {InsideIn(e, k - 1) : e \in NewIn(Body(prog, n))}
Inside(n) == InsideIn(n, MaxNode)

\* C23: once the stop handle of a scope was called, every effect created
\* in the body of the scope has no dependency link, is in no subscriber
\* list, and its body runs in no call.
C23_ScopeTeardown ==
    \A n \in stopped :
        nodes[n].kind = "scope" =>
            \A e \in Inside(n) :
                /\ nodes[e].deps = NoLink
                /\ \A d \in NodeIds : e \notin SubsOf(d)
                /\ Runs(e) = 0

\* a write that changes a signal an effect of the stopped scope had read
C23_Witness ==
    /\ lastCall.call.op = "write"
    /\ lastCall.call.prev # lastCall.call.val
    /\ \E n \in stopped :
           /\ nodes[n].kind = "scope"
           /\ \E e \in Inside(n) :
                  /\ nodes[e].kind = "effect"
                  /\ Has(Body(prog, e), "read")

\* the links in the dependency list of subscriber n (deps .. depsTail)
RECURSIVE DepLinksFrom(_, _, _)
DepLinksFrom(lnk, last, k) ==
    IF lnk = NoLink \/ k = 0 THEN {}
    ELSE IF lnk = last THEN {lnk}
    ELSE {lnk} \cup DepLinksFrom(links[lnk].nextDep, last, k - 1)
DepLinks(n) == DepLinksFrom(nodes[n].deps, nodes[n].depsTail, MaxLink)

\* the links in the subscriber list of dependency d
RECURSIVE SubLinksFrom(_, _)
SubLinksFrom(lnk, k) ==
    IF lnk = NoLink \/ k = 0 THEN {}
    ELSE {lnk} \cup SubLinksFrom(links[lnk].nextSub, k - 1)
SubLinks(d) == SubLinksFrom(nodes[d].subs, MaxLink)

\* the links that are in a list
Listed == UNION {DepLinks(n) \cup SubLinks(n) : n \in NodeIds}

\* C24: no two links join the same dependency and the same subscriber.
C24_OneLinkPerPair ==
    \A a, b \in Listed :
        links[a].dep = links[b].dep /\ links[a].sub = links[b].sub => a = b

\* C25: mirror lists.  Every link that is in a list is in the dependency
\* list of its subscriber and of no other node, and in the subscriber list
\* of its dependency and of no other node.
C25_MirrorLists ==
    \A l \in Listed :
        /\ \A n \in NodeIds : l \in DepLinks(n) <=> n = links[l].sub
        /\ \A d \in NodeIds : l \in SubLinks(d) <=> d = links[l].dep

C26_DirtyStep ==
    \A n \in NodeIds :
        Dirty \in nodes[n].flags /\ Dirty \notin nodes'[n].flags =>
            \E j \in DOMAIN trace' :
                /\ trace'[j].ev = "end"
                /\ trace'[j].node = n
                /\ trace'[j].threw = "none"

\* C26: a call clears the Dirty flag of a node only if in that call a
\* derivation or a run of the node came to its end without a throw.
C26_DirtyCleared == [][C26_DirtyStep]_vars

C27_RetryStep ==
    \A c \in NodeIds :
        /\ lastCall.call.op = "read" /\ lastCall.call.node = c
        /\ lastCall.threw = "Error"
        /\ \E j \in DOMAIN trace :
               /\ trace[j].ev = "end" /\ trace[j].node = c
               /\ trace[j].threw = "Error"
        /\ lastCall'.call.op = "read" /\ lastCall'.call.node = c
        => \E j \in DOMAIN trace' :
               trace'[j].ev = "derive" /\ trace'[j].node = c

\* C27: when a read of a computed threw out of its derivation, the next
\* read of that computed invokes the derivation again.
C27_Retry == [][C27_RetryStep]_vars

\* the effects that are not stopped and wait for a notification
Waiting ==
    {e \in NodeIds \ stopped :
        nodes[e].kind = "effect" /\ Notified \in nodes[e].flags}

C28_FlushStep ==
    /\ queuedEffects \in stopped
    /\ batchDepth = 1
    /\ lastCall'.call.op = "endBatch"
    => /\ lastCall'.threw = "none"
       /\ \A e \in stopped : \A j \in DOMAIN trace' :
              ~(trace'[j].ev = "run" /\ trace'[j].node = e)
       /\ Waiting \subseteq Range(NodesOf(trace', "notify"))
       /\ queuedEffects' = NoNode

\* C28: when an effect that was stopped inside a batch is on the pending
\* queue, the flush of the closing endBatch() comes to its end without a
\* throw, runs no body of a stopped effect, and notifies every other effect
\* that waits.
C28_StoppedInQueue == [][C28_FlushStep]_vars

\* C29: a stop of effect E changes the links of E only.  Every other
\* subscriber, unless the stop took its last subscriber from it, keeps its
\* dependency list, and each of its links that was in the subscriber list
\* of its dependency is still there.
C29_StopStep ==
    lastCall'.call.op = "stop" =>
        \A n \in NodeIds \ {lastCall'.call.node} :
            /\ nodes[n].kind \in {"computed", "effect", "scope"}
            /\ ~(nodes[n].subs # NoLink /\ nodes'[n].subs = NoLink)
            => /\ DepLinks(n)' = DepLinks(n)
               /\ \A l \in DepLinks(n) :
                      l \in SubLinks(links[l].dep)
                          => (l \in SubLinks(links[l].dep))'

C29_StopFrame == [][C29_StopStep]_vars

\* C30: no missed update.  Whenever the batch depth is zero and no call is
\* in progress, every effect that is not stopped, has dependencies and has
\* the Dirty flag is on the pending queue.
C30_NoMissedUpdate ==
    batchDepth = 0 =>
        \A e \in NodeIds \ stopped :
            /\ nodes[e].kind = "effect"
            /\ nodes[e].deps # NoLink
            /\ Dirty \in nodes[e].flags
            => e \in Range(QueueOf(Cur))

\* C31: equality cut-off.  In every call but that of a stop handle (which
\* derives nothing), a computed or an effect that is not Dirty when the
\* call begins, and whose dependencies all hold after the call the value
\* they held before it (a computed that was derived again to the value it
\* had is one), is not derived or run by the call, and is not Dirty after
\* it unless the call took its last subscriber away.
C31_CutoffStep ==
    \A n \in NodeIds :
        (/\ lastCall'.call.op # "stop"
         /\ nodes[n].kind \in {"computed", "effect"}
         /\ nodes[n].deps # NoLink
         /\ Dirty \notin nodes[n].flags
         /\ \A d \in DepSet(n) :
                nodes'[d].currentValue = nodes[d].currentValue)
        => /\ \A i \in DOMAIN trace' :
                  ~(trace'[i].ev \in {"run", "derive"} /\ trace'[i].node = n)
           /\ ~(nodes[n].subs # NoLink /\ nodes'[n].subs = NoLink)
                  => Dirty \notin nodes'[n].flags

C31_EqualityCutoff == [][C31_CutoffStep]_vars

\* a write changed the signal of the chain, the computed was derived again
\* to the value it had, and the effect that reads it did not run
C31_Witness ==
    /\ prog = Chain /\ Live(3) /\ WriteOutsideBatch
    /\ lastCall.call.prev # lastCall.call.val
    /\ Derives(2) = 1
    /\ Derived(2) = DerivedBefore(2)
    /\ Enqueues(3) = 1
    /\ Runs(3) = 0

\* the runs of the body of n in the events tr
RunsOf(tr, n) ==
    Cardinality({i \in DOMAIN tr : tr[i].ev = "run" /\ tr[i].node = n})

\* C32: nested-effect cascade.  When effect e is a dependency of effect o
\* (o created it in its body) and e is the only subscriber of a signal, a
\* write outside a batch that changes the signal runs the body of e once
\* and does not run the body of o.
C32_CascadeStep ==
    (/\ lastCall'.call.op = "write"
     /\ lastCall'.call.depth = 0
     /\ lastCall'.call.prev # lastCall'.call.val) =>
        \A o, e \in NodeIds :
            (/\ nodes[o].kind = "effect" /\ nodes[e].kind = "effect"
             /\ e \in DepSet(o)
             /\ SubsOf(lastCall'.call.node) = {e})
            => /\ RunsOf(trace', e) = 1
               /\ RunsOf(trace', o) = 0

C32_NestedCascade == [][C32_CascadeStep]_vars

\* a write to the signal that only the inner effect reads ran the inner
\* effect, which is still a dependency of the outer effect
C32_Witness ==
    /\ prog = Optional /\ Live(3) /\ WriteOutsideBatch
    /\ lastCall.call.node = 2
    /\ lastCall.call.prev # lastCall.call.val
    /\ \E e \in DepSet(3) :
           /\ nodes[e].kind = "effect"
           /\ SubsOf(2) = {e}
           /\ Runs(e) = 1
    /\ Runs(3) = 0

\* when a session of an effect is closed, the effects that were its
\* dependencies before the run (each run creates new objects) are not
\* among its dependencies any more and, unless the object was made anew
\* later in the call, have no dependency and are in no subscriber list
C33_Detached ==
    \A j \in DOMAIN trace :
        (trace[j].ev = "end" /\ Kind(prog, trace[j].node) \in {"effect", "inner"})
        => \A e \in Range(trace[j].was) :
               Kind(prog, e) = "inner" =>
                   /\ e \notin Range(trace[j].deps)
                   /\ (\A k \in (j + 1)..Len(trace) :
                          ~(trace[k].ev = "effect" /\ trace[k].node = e))
                      => /\ nodes[e].deps = NoLink
                         /\ nodes[e].subs = NoLink
                         /\ \A d \in NodeIds : e \notin SubsOf(d)

\* no call runs the body of an effect that was created in a body and is no
\* dependency of any subscriber (the object may be made anew first)
C33_NoRunStep ==
    \A e \in NodeIds :
        (/\ Kind(prog, e) = "inner"
         /\ nodes[e].kind = "effect"
         /\ nodes[e].subs = NoLink)
        => \A i \in DOMAIN trace' :
               (trace'[i].ev = "run" /\ trace'[i].node = e)
               => \E k \in 1..(i - 1) :
                      trace'[k].ev = "effect" /\ trace'[k].node = e

\* C33: when an outer effect re-runs, every inner effect that its previous
\* run created is detached: it is no dependency of the outer effect, it
\* has no dependency link of its own, and no later call runs its body.
C33_InnerDetached == []C33_Detached /\ [][C33_NoRunStep]_vars

\* the outer effect re-ran and created no inner effect; a later write
\* changed the signal that the detached inner effect had read
C33_Witness ==
    /\ prog = Optional /\ Live(3) /\ WriteOutsideBatch
    /\ lastCall.call.node = 2
    /\ lastCall.call.prev # lastCall.call.val
    /\ nodes[1].currentValue = 1
    /\ DepSet(3) = {1}
    /\ \E e \in Slots(Optional, 4) :
           /\ nodes[e].kind = "effect"
           /\ nodes[e].deps = NoLink /\ nodes[e].subs = NoLink
           /\ Runs(e) = 0

\* a computed or an effect that had subscribers before the call and has
\* none after it (the same object: it was not made anew in the call) is
\* Dirty and has no dependency link left
C34_OrphanStep ==
    \A d \in NodeIds :
        (/\ nodes[d].kind \in {"computed", "effect"}
         /\ nodes[d].subs # NoLink
         /\ nodes'[d].subs = NoLink
         /\ \A k \in DOMAIN trace' :
                ~(trace'[k].ev = "effect" /\ trace'[k].node = d))
        => /\ Dirty \in nodes'[d].flags
           /\ nodes'[d].deps = NoLink /\ nodes'[d].depsTail = NoLink
           /\ \A x \in NodeIds : (d \notin SubsOf(x))'

\* a computed that lost its subscribers and holds a value is derived again
\* before a read of it returns
C34_RereadStep ==
    \A c \in NodeIds :
        (/\ nodes[c].kind = "computed"
         /\ nodes[c].currentValue # Undefined
         /\ nodes[c].subs = NoLink /\ nodes[c].deps = NoLink
         /\ Dirty \in nodes[c].flags)
        => \A i \in DOMAIN trace' :
               (trace'[i].ev = "read" /\ trace'[i].dep = c)
               => \E k \in 1..(i - 1) :
                      trace'[k].ev = "derive" /\ trace'[k].node = c

\* C34: when a call unlinks the last subscriber of a computed or of an
\* effect, that node is marked Dirty and all of its dependency links are
\* removed, and so for each dependency this leaves without subscribers; a
\* later read of such a computed derives it again.
C34_OrphanCascade == [][C34_OrphanStep /\ C34_RereadStep]_vars

\* the outer effect was stopped, which left the inner effect and then the
\* computed it read without subscribers; the computed was then read
C34_Witness ==
    /\ prog = Nested /\ stopped = {3}
    /\ lastCall.call.op = "read" /\ lastCall.call.node = 2
    /\ nodes[4].kind = "effect"
    /\ nodes[4].deps = NoLink /\ Dirty \in nodes[4].flags
    /\ nodes[2].subs = NoLink
    /\ Derives(2) = 1
    /\ \E i \in DOMAIN trace :
           trace[i].ev = "read" /\ trace[i].dep = 2 /\ trace[i].val = Derived(2)

\* the subscribers that propagate found with none of Tracking, Recursed,
\* Dirty, PendingComputed and PendingEffect set
Marks == {i \in DOMAIN trace : trace[i].ev = "mark"}

\* the dependency on whose subscriber list the walk that made event i began
SourceOf(i) ==
    LET P == {k \in 1..i : trace[k].ev = "propagate"}
    IN  trace[CHOOSE k \in P : \A j \in P : j <= k].node

\* C35, as stated: when propagate reaches a subscriber that has none of the
\* Tracking, Recursed or Propagated flags, it sets Notified, and Dirty if
\* the subscriber has no subscriber of its own, or PendingComputed /
\* PendingEffect if it has subscribers or is an effect.
C35_TerminalDirty ==
    \A i \in Marks :
        /\ (lastCall.call.op = "write" /\ lastCall.call.depth > 0)
               => Notified \in nodes[trace[i].node].flags
        /\ (trace[i].last /\ Kind(prog, trace[i].node) = "computed")
               => trace[i].flag = Dirty
        /\ ~trace[i].last
               => trace[i].flag \in {PendingComputed, PendingEffect}

\* C35, amended: such a subscriber gets Notified, and Dirty when it is in
\* the subscriber list of the dependency that propagate was called for,
\* PendingComputed when the walk reached it through a computed and
\* PendingEffect when it reached it through an effect; whether it has
\* subscribers of its own makes no difference.
C35_LevelFlag ==
    \A i \in Marks :
        /\ trace[i].flag =
               IF trace[i].dep = SourceOf(i) THEN Dirty
               ELSE IF nodes[trace[i].dep].kind = "computed"
               THEN PendingComputed
               ELSE PendingEffect
        /\ (lastCall.call.op = "write" /\ lastCall.call.depth > 0)
               => {trace[i].flag, Notified} \subseteq nodes[trace[i].node].flags

\* a write in a batch: the computed that reads the signal has a subscriber
\* and got Dirty, the inner effect that reads the computed got
\* PendingComputed, and the outer effect, which has no subscriber, got
\* PendingEffect
C35_Witness ==
    /\ prog = Nested
    /\ lastCall.call.op = "write" /\ lastCall.call.depth > 0
    /\ \E i, j, k \in Marks :
           /\ trace[i].node = 2 /\ trace[i].flag = Dirty /\ ~trace[i].last
           /\ trace[j].dep = 2 /\ trace[j].flag = PendingComputed
           /\ nodes[trace[j].node].kind = "effect"
           /\ trace[k].dep = trace[j].node /\ trace[k].node = 3
           /\ trace[k].flag = PendingEffect /\ trace[k].last

\* startTracking resets the cursor, clears Notified, Recursed, Dirty,
\* PendingComputed and PendingEffect, sets Tracking and leaves the kind bits;
\* endTracking, when it returns, clears Tracking (applied here to every
\* subscriber of every state)
C36_Bracket ==
    \A n \in NodeIds :
        HasFlags(Cur, n) =>
            LET m1 == startTracking(Cur, n)
                m2 == endTracking(m1, n)
            IN  /\ m1.nodes[n].depsTail = NoLink
                /\ m1.nodes[n].deps = nodes[n].deps
                /\ m1.nodes[n].flags \cap
                       {Notified, Recursed, Dirty, PendingComputed,
                        PendingEffect} = {}
                /\ Tracking \in m1.nodes[n].flags
                /\ m1.nodes[n].flags \cap {Computed, Effect} =
                       nodes[n].flags \cap {Computed, Effect}
                /\ m2.exc = "none" => Tracking \notin m2.nodes[n].flags

\* C36: tracking-session bracket.  startTracking and endTracking set and
\* clear the flags as above, and whenever no call is in progress (no body
\* is executing) no node has the Tracking flag.
C36_TrackingBracket ==
    /\ C36_Bracket
    /\ \A n \in NodeIds : Tracking \notin nodes[n].flags

\* a body threw: the session was closed all the same, and the effect, which
\* keeps the dependency it had read, is not Tracking
C36_Witness ==
    /\ lastCall.threw = "Error"
    /\ \E j \in DOMAIN trace :
           /\ trace[j].ev = "end" /\ trace[j].threw = "Error"
           /\ nodes[trace[j].node].kind = "effect"
           /\ nodes[trace[j].node].deps # NoLink
           /\ Tracking \notin nodes[trace[j].node].flags
    /\ \A n \in NodeIds : Tracking \notin nodes[n].flags

PublicCalls ==
    {"write", "get", "read", "effect", "effectScope", "stop", "endBatch"}

\* C37: after a public call (a signal read or write, a computed read, the
\* creation of an effect or of a scope, a stop, an endBatch) has returned or
\* thrown, the active subscriber and the active scope are the ones of
\* before the call, whatever effects, scopes and derivations ran in it.
C37_ActiveStep ==
    lastCall'.call.op \in PublicCalls =>
        /\ activeSub' = activeSub
        /\ activeScope' = activeScope

C37_ActiveRestored == [][C37_ActiveStep]_vars

\* the creation of a scope ran the scope's function, which created an
\* effect, whose body read a computed, whose derivation threw
C37_Witness ==
    /\ prog = Thrower
    /\ lastCall.call.op = "effectScope" /\ lastCall.threw = "Error"
    /\ \E i, j, k \in DOMAIN trace :
           /\ i < j /\ j < k
           /\ trace[i].ev = "run" /\ trace[i].node = 3
           /\ trace[j].ev = "run" /\ nodes[trace[j].node].kind = "effect"
           /\ trace[k].ev = "derive" /\ trace[k].node = 2
    /\ activeSub = NoNode /\ activeScope = NoNode

\* the walk of propagate from signal s visits n: n reads s, or n reads a
\* computed that reads s and has none of the flags that stop the walk
Visits(s, n) ==
    \/ n \in SubsOf(s)
    \/ \E d \in SubsOf(s) :
           /\ nodes[d].kind = "computed"
           /\ nodes[d].flags \cap ({Tracking, Recursed} \cup Propagated) = {}
           /\ n \in SubsOf(d)

EnqueuesOf(tr, n) == {i \in DOMAIN tr : tr[i].ev = "enqueue" /\ tr[i].node = n}

\* the flush of an endBatch takes from the head of the queue a scope for
\* which the policy returns false (it has no PendingEffect flag): the
\* scope has no Notified flag after the call, unless the call queued it
C38_ClearStep ==
    \A n \in NodeIds :
        (/\ lastCall'.call.op = "endBatch" /\ batchDepth = 1
         /\ queuedEffects = n
         /\ nodes[n].kind = "scope"
         /\ nodes[n].depsTail # NoLink
         /\ PendingEffect \notin nodes[n].flags
         /\ EnqueuesOf(trace', n) = {})
        => Notified \notin nodes'[n].flags

\* a write that returns and whose propagation visits a scope that is not
\* stopped, not Notified and not on the queue appends the scope to the queue
C38_RequeueStep ==
    \A n \in NodeIds :
        (/\ lastCall'.call.op = "write"
         /\ lastCall'.call.prev # lastCall'.call.val
         /\ lastCall'.threw = "none"
         /\ nodes[n].kind = "scope" /\ n \notin stopped
         /\ nodes[n].deps # NoLink
         /\ Notified \notin nodes[n].flags
         /\ n \notin Range(QueueOf(Cur))
         /\ Visits(lastCall'.call.node, n))
        => EnqueuesOf(trace', n) # {}

\* C38: when the notification policy returns false for a dequeued scope,
\* the flush clears its Notified flag, and a later propagation that reaches
\* the scope appends it to the pending queue again.
C38_Requeue == [][C38_ClearStep /\ C38_RequeueStep]_vars

\* C39: return-path hygiene.  Whenever no call is in progress (propagate
\* and checkDirty have returned), the first link of every subscriber list
\* has no prevSub.
C39_HeadPrevSub ==
    \A d \in NodeIds :
        nodes[d].subs # NoLink => links[nodes[d].subs].prevSub = NoLink

=============================================================================
